---- MODULE Spec2Model ----
(***************************************************************************)
(* Settings definition and validation engine of the Configurizer           *)
(* (solution variant): ConfigurableMachine.verifySettings and              *)
(* ConfigurableMachine.convertUom, InjectionMolder.applySettings with the  *)
(* settings file it writes, and the handlers of the server                 *)
(* (POST /machines/:name/settings, POST /demo/add); and verifySettings and *)
(* convertUom of the starter variant.                                      *)
(*                                                                         *)
(* JavaScript values are records with uniform fields: t is the result of   *)
(* typeof, s/b the string/boolean payload, nan marks NaN, inf the          *)
(* infinities, and a finite number is the exact value                      *)
(* (n/d) * PressureFactor^e * Number.MAX_VALUE^m, with n/d in lowest       *)
(* terms.  Inputs are integers (d = 1, e = 0, m = 0) and one number of the *)
(* magnitude of Number.MAX_VALUE; the conversion formulas produce the      *)
(* other forms.                                                            *)
(***************************************************************************)
EXTENDS Integers, Sequences, FiniteSets, TLC

VARIABLES
    settings,     \* this.settings: the machine's definitions (Setting[])
    op,           \* "idle", or the method or handler that has just returned
    values,       \* verifySettings, applySettings: the SettingValue[] passed
    valuesAfter,  \* the content of that array when the method has returned
    errors,       \* verifySettings, applySettings: the SettingError[] returned
    value,        \* convertUom: the value argument
    from,         \* convertUom: the from argument
    to,           \* convertUom: the to argument
    converted,    \* convertUom: the result (a number or undefined)
    back,         \* convertUom: the result of converting the result back
    file,         \* the file at config.filePath: <<>> or <<its content>>
    request,      \* the HTTP request a handler has answered
    response,     \* the response: the status and the object handed to res.json
    addCalls      \* the calls of add the handler made: <<a, b>> each

vars == <<settings, op, values, valuesAfter, errors, value, from, to, converted,
          back, file, request, response, addCalls>>

----------------------------------------------------------------------------
(* JavaScript values *)

Undefined == [t |-> "undefined", s |-> "", b |-> FALSE, nan |-> FALSE,
     inf |-> 0, n |-> 0, d |-> 1, e |-> 0, m |-> 0]

Str(x) == [t |-> "string", s |-> x, b |-> FALSE, nan |-> FALSE,
     inf |-> 0, n |-> 0, d |-> 1, e |-> 0, m |-> 0]

Bool(x) == [t |-> "boolean", s |-> "", b |-> x, nan |-> FALSE,
     inf |-> 0, n |-> 0, d |-> 1, e |-> 0, m |-> 0]

NaN == [t |-> "number", s |-> "", b |-> FALSE, nan |-> TRUE,
     inf |-> 0, n |-> 0, d |-> 1, e |-> 0, m |-> 0]

\* Infinity (sg = 1) and -Infinity (sg = -1)
Infinity(sg) == [t |-> "number", s |-> "", b |-> FALSE, nan |-> FALSE,
     inf |-> sg, n |-> 0, d |-> 1, e |-> 0, m |-> 0]

Abs(i) == IF i < 0 THEN -i ELSE i

RECURSIVE Gcd(_, _)
Gcd(i, j) == IF j = 0 THEN i ELSE Gcd(j, i % j)

\* a case the formulas of convertUom never produce from the inputs used
Unsupported == CHOOSE x \in {} : TRUE

\* Whether |i/j| * PressureFactor^k * Number.MAX_VALUE is beyond the doubles:
\* TRUE from 9/8 of Number.MAX_VALUE on, FALSE up to 7/8 of it
\* (14 < PressureFactor < 15).
Overflows(i, j, k) ==
    LET a == Abs(i)
        c == Abs(j)
        lo == CASE k = 0 -> <<a, c>> [] k = 1 -> <<14 * a, c>> [] k = -1 -> <<a, 15 * c>>
        hi == CASE k = 0 -> <<a, c>> [] k = 1 -> <<15 * a, c>> [] k = -1 -> <<a, 14 * c>>
    IN IF 8 * lo[1] >= 9 * lo[2] THEN TRUE
       ELSE IF 8 * hi[1] <= 7 * hi[2] THEN FALSE
       ELSE Unsupported

\* The double (i/j) * PressureFactor^k * Number.MAX_VALUE^mx, j # 0, in lowest
\* terms with j > 0; Infinity or -Infinity when it is beyond the doubles.
Double(i, j, k, mx) ==
    LET g == Gcd(Abs(i), Abs(j))
        sg == IF j < 0 THEN -1 ELSE 1
    IN IF i # 0 /\ mx = 1 /\ Overflows(i, j, k)
       THEN Infinity(IF (i < 0) = (j < 0) THEN 1 ELSE -1)
       ELSE [t |-> "number", s |-> "", b |-> FALSE, nan |-> FALSE, inf |-> 0,
             n |-> sg * (i \div g), d |-> sg * (j \div g),
             e |-> IF i = 0 THEN 0 ELSE k, m |-> IF i = 0 THEN 0 ELSE mx]

\* The number (i/j) * PressureFactor^k
Ratio(i, j, k) == Double(i, j, k, 0)

Num(i) == Ratio(i, 1, 0)

typeof(v) == v.t

isNaN(v) == v.t = "number" /\ v.nan

----------------------------------------------------------------------------
(* enum SettingType, enum UnitOfMeasure *)

SettingTypeSTRING == "string"
SettingTypeNUMBER == "number"
SettingTypeBOOLEAN == "boolean"

SettingType == {SettingTypeSTRING, SettingTypeNUMBER, SettingTypeBOOLEAN}

DEGREE_CELSIUS == "degC"
DEGREE_FAHRENHEIT == "degF"
BAR == "bar"
PSI == "psi"
RPM == "rpm"
RPS == "rps"
SECOND == "s"
MINUTE == "min"

UnitOfMeasure == {DEGREE_CELSIUS, DEGREE_FAHRENHEIT, BAR, PSI, RPM, RPS, SECOND, MINUTE}

\* an optional uom that is not given
NoUom == "undefined"

----------------------------------------------------------------------------
(* Arithmetic of the numbers convertUom and the range check compute with.  *)
(* The double 14.5037738007218 is the exact decimal PressureFactor; it is   *)
(* kept symbolic (the exponent e) and compared digit by digit, in limbs of  *)
(* base 10^4, since 145037738007218 exceeds the 32-bit integers of TLC. *)

\* 14.5037738007218 * 10^13 = 145 0377 3800 7218
PressureFactorLimbs == <<145, 377, 3800, 7218>>

Sign(i) == IF i < 0 THEN -1 ELSE IF i > 0 THEN 1 ELSE 0

\* sign of a * 14.5037738007218 - c, for integers a >= 0 and c > 0
SignScaledPos(a, c) ==
    LET x0 == a * PressureFactorLimbs[4]
        x1 == a * PressureFactorLimbs[3] + (x0 \div 10000)
        x2 == a * PressureFactorLimbs[2] + (x1 \div 10000)
        hi == a * PressureFactorLimbs[1] + (x2 \div 10000)
        lo == (x2 % 10000) + (x1 % 10000) + (x0 % 10000)
    IN IF hi # 10 * c THEN Sign(hi - 10 * c) ELSE Sign(lo)

\* sign of a * 14.5037738007218 - c, for integers a and c
SignScaled(a, c) ==
    IF a >= 0
    THEN IF c <= 0 THEN (IF a = 0 /\ c = 0 THEN 0 ELSE 1) ELSE SignScaledPos(a, c)
    ELSE IF c >= 0 THEN -1 ELSE -SignScaledPos(-a, -c)

\* sign of x - y for finite numbers x and y, y free of the pressure factor
Compare(x, y) ==
    LET a == x.n * y.d
        c == y.n * x.d
    IN CASE y.e # 0 \/ y.m # 0 \/ y.inf # 0 -> Unsupported
         [] x.inf # 0 -> x.inf
         [] x.m # 0 -> Sign(x.n)
         [] x.e = 0 -> Sign(a - c)
         [] x.e = 1 -> SignScaled(a, c)
         [] x.e = -1 -> -SignScaled(c, a)
         [] OTHER -> Unsupported

\* x < y and x > y of JavaScript: false when an operand is NaN
Less(x, y) == ~x.nan /\ ~y.nan /\ Compare(x, y) < 0

Greater(x, y) == ~x.nan /\ ~y.nan /\ Compare(x, y) > 0

\* x * i, x / i, x + i for a number x and an integer i # 0.  A sum with a
\* number of the magnitude of Number.MAX_VALUE rounds to that number.
Times(x, i) ==
    IF x.nan THEN NaN
    ELSE IF x.inf # 0 THEN Infinity(x.inf * Sign(i))
    ELSE Double(x.n * i, x.d, x.e, x.m)

Over(x, i) ==
    IF x.nan THEN NaN
    ELSE IF x.inf # 0 THEN Infinity(x.inf * Sign(i))
    ELSE Double(x.n, x.d * i, x.e, x.m)

Plus(x, i) ==
    IF x.nan THEN NaN
    ELSE IF x.inf # 0 \/ x.m # 0 THEN x
    ELSE IF x.e # 0 THEN Unsupported
    ELSE Ratio(x.n + i * x.d, x.d, 0)

\* x * 14.5037738007218 and x / 14.5037738007218
TimesPressureFactor(x) ==
    IF x.nan THEN NaN
    ELSE IF x.inf # 0 THEN x
    ELSE Double(x.n, x.d, x.e + 1, x.m)

OverPressureFactor(x) ==
    IF x.nan THEN NaN
    ELSE IF x.inf # 0 THEN x
    ELSE Double(x.n, x.d, x.e - 1, x.m)

----------------------------------------------------------------------------
(* ConfigurableMachine.convertUom *)

\* convertUom without the return of the value for equal units
convertUomNoIdentity(v, f, u) ==
    IF f = DEGREE_CELSIUS /\ u = DEGREE_FAHRENHEIT THEN Plus(Over(Times(v, 9), 5), 32)
    ELSE IF f = DEGREE_FAHRENHEIT /\ u = DEGREE_CELSIUS THEN Over(Times(Plus(v, -32), 5), 9)
    ELSE IF f = BAR /\ u = PSI THEN TimesPressureFactor(v)
    ELSE IF f = PSI /\ u = BAR THEN OverPressureFactor(v)
    ELSE IF f = RPM /\ u = RPS THEN Over(v, 60)
    ELSE IF f = RPS /\ u = RPM THEN Times(v, 60)
    ELSE IF f = SECOND /\ u = MINUTE THEN Over(v, 60)
    ELSE IF f = MINUTE /\ u = SECOND THEN Times(v, 60)
    ELSE Undefined

\* convertUom has a formula for the two units
SameClassOfUnits(f, u) == convertUomNoIdentity(Ratio(0, 1, 0), f, u) # Undefined \/ f = u

\* convertUom without the conversion from PSI to BAR
convertUomNoPsiToBar(v, f, u) ==
    IF f = u THEN v
    ELSE IF f = PSI /\ u = BAR THEN Undefined
    ELSE convertUomNoIdentity(v, f, u)

\* convertUom with Fahrenheit to Celsius as v * 5 / 9 - 32
convertUomOffsetAfterScale(v, f, u) ==
    IF f = u THEN v
    ELSE IF f = DEGREE_FAHRENHEIT /\ u = DEGREE_CELSIUS THEN Plus(Over(Times(v, 5), 9), -32)
    ELSE convertUomNoIdentity(v, f, u)

\* convertUom with RPM to RPS as v / 100
convertUomRpmOverHundred(v, f, u) ==
    IF f = u THEN v
    ELSE IF f = RPM /\ u = RPS THEN Over(v, 100)
    ELSE convertUomNoIdentity(v, f, u)

convertUom(v, f, u) ==
    IF f = u THEN v
    ELSE IF f = DEGREE_CELSIUS /\ u = DEGREE_FAHRENHEIT THEN Plus(Over(Times(v, 9), 5), 32)
    ELSE IF f = DEGREE_FAHRENHEIT /\ u = DEGREE_CELSIUS THEN Over(Times(Plus(v, -32), 5), 9)
    ELSE IF f = BAR /\ u = PSI THEN TimesPressureFactor(v)
    ELSE IF f = PSI /\ u = BAR THEN OverPressureFactor(v)
    ELSE IF f = RPM /\ u = RPS THEN Over(v, 60)
    ELSE IF f = RPS /\ u = RPM THEN Times(v, 60)
    ELSE IF f = SECOND /\ u = MINUTE THEN Over(v, 60)
    ELSE IF f = MINUTE /\ u = SECOND THEN Times(v, 60)
    ELSE Undefined

----------------------------------------------------------------------------
(* Map and Set of JavaScript: both iterate in insertion order.  A Map is a  *)
(* sequence of [key, val] entries with distinct keys, a Set a sequence of   *)
(* distinct members.                                                        *)

MapHas(m, k) == \E i \in 1..Len(m) : m[i].key = k

\* Map.get: <<>> for undefined, else <<the value>>
MapGet(m, k) ==
    IF MapHas(m, k) THEN <<m[CHOOSE i \in 1..Len(m) : m[i].key = k].val>> ELSE <<>>

\* Map.set: a known key keeps its place and takes the new value
MapSet(m, k, v) ==
    IF MapHas(m, k)
    THEN [i \in 1..Len(m) |-> IF m[i].key = k THEN [key |-> k, val |-> v] ELSE m[i]]
    ELSE Append(m, [key |-> k, val |-> v])

SetHas(q, x) == \E i \in 1..Len(q) : q[i] = x

SetAdd(q, x) == IF SetHas(q, x) THEN q ELSE Append(q, x)

\* provided?.value and provided?.uom, for provided = <<>> or <<p>>
OptValue(provided) == IF provided = <<>> THEN Undefined ELSE provided[1].value

OptUom(provided) == IF provided = <<>> THEN NoUom ELSE provided[1].uom

SettingError(id, msg) == [identifier |-> id, message |-> msg]

\* how often, and whether, a result holds the error {id, msg}
Count(errs, id, msg) == Cardinality({ i \in 1..Len(errs) : errs[i] = SettingError(id, msg) })

Has(errs, id, msg) == Count(errs, id, msg) > 0

\* `${n}` for the numbers a definition bounds with (integers)
NumberToString(v) == IF v.d = 1 /\ v.e = 0 /\ v.m = 0 /\ v.inf = 0 THEN ToString(v.n) ELSE Unsupported

----------------------------------------------------------------------------
(* ConfigurableMachine.verifySettings *)

MsgDuplicate == "Duplicate setting identifier provided"
MsgUnknown == "Unknown setting identifier"
MsgMissing == "Missing value (no default and not nullable)"
MsgUomNotNumeric == "Unit of measure is only allowed for numeric settings"
MsgString == "Value must be a string"
MsgBoolean == "Value must be a boolean"
MsgNumber == "Value must be a number"
MsgUomNotSupported == "Unit of measure is not supported for this setting"
MsgUomNotConvertible == "Unit of measure is not convertible to required unit"
MsgMin(minValue) == "Value must be >= " \o NumberToString(minValue)
MsgMax(maxValue) == "Value must be <= " \o NumberToString(maxValue)

\* the definitionMap after the first k definitions
RECURSIVE definitionMapOf(_, _)
definitionMapOf(defs, k) ==
    IF k = 0 THEN <<>>
    ELSE MapSet(definitionMapOf(defs, k - 1), defs[k].identifier, defs[k])

\* seenProvided and duplicateProvided after the first k proposals
RECURSIVE scanProvided(_, _)
scanProvided(vals, k) ==
    IF k = 0 THEN [seenProvided |-> <<>>, duplicateProvided |-> <<>>]
    ELSE LET st == scanProvided(vals, k - 1)
             id == vals[k].identifier
         IN IF SetHas(st.seenProvided, id)
            THEN [st EXCEPT !.duplicateProvided = SetAdd(@, id)]
            ELSE [st EXCEPT !.seenProvided = SetAdd(@, id)]

\* duplicateErrors with one error per repeated proposal
duplicateErrorsPerRepeat(vals) ==
    LET repeats == SelectSeq([i \in 1..Len(vals) |-> i],
                             LAMBDA i : \E j \in 1..(i - 1) :
                                            vals[j].identifier = vals[i].identifier)
    IN [r \in 1..Len(repeats) |-> SettingError(vals[repeats[r]].identifier, MsgDuplicate)]

\* the errors pushed for the members of duplicateProvided
duplicateErrors(vals) ==
    LET dup == scanProvided(vals, Len(vals)).duplicateProvided
    IN [i \in 1..Len(dup) |-> SettingError(dup[i], MsgDuplicate)]

\* matchProvided with the unknown identifier reported for its first proposal only
RECURSIVE matchProvidedOnce(_, _, _)
matchProvidedOnce(defMap, vals, k) ==
    IF k = 0 THEN [errors |-> <<>>, providedMap |-> <<>>]
    ELSE LET st == matchProvidedOnce(defMap, vals, k - 1)
             provided == vals[k]
         IN IF ~MapHas(defMap, provided.identifier)
            THEN IF Has(st.errors, provided.identifier, MsgUnknown) THEN st
                 ELSE [st EXCEPT !.errors =
                           Append(@, SettingError(provided.identifier, MsgUnknown))]
            ELSE IF ~MapHas(st.providedMap, provided.identifier)
            THEN [st EXCEPT !.providedMap = MapSet(@, provided.identifier, provided)]
            ELSE st

\* matchProvided with the last proposal of an identifier kept
RECURSIVE matchProvidedLast(_, _, _)
matchProvidedLast(defMap, vals, k) ==
    IF k = 0 THEN [errors |-> <<>>, providedMap |-> <<>>]
    ELSE LET st == matchProvidedLast(defMap, vals, k - 1)
             provided == vals[k]
         IN IF ~MapHas(defMap, provided.identifier)
            THEN [st EXCEPT !.errors =
                      Append(@, SettingError(provided.identifier, MsgUnknown))]
            ELSE [st EXCEPT !.providedMap = MapSet(@, provided.identifier, provided)]

\* the errors pushed and the providedMap after the first k proposals of the
\* second loop
RECURSIVE matchProvided(_, _, _)
matchProvided(defMap, vals, k) ==
    IF k = 0 THEN [errors |-> <<>>, providedMap |-> <<>>]
    ELSE LET st == matchProvided(defMap, vals, k - 1)
             provided == vals[k]
         IN IF ~MapHas(defMap, provided.identifier)
            THEN [st EXCEPT !.errors =
                      Append(@, SettingError(provided.identifier, MsgUnknown))]
            ELSE IF ~MapHas(st.providedMap, provided.identifier)
            THEN [st EXCEPT !.providedMap = MapSet(@, provided.identifier, provided)]
            ELSE st

\* rangeErrors without the check of maxValue
rangeErrorsMinOnly(identifier, def, valueForRange) ==
    IF def.minValue # Undefined /\ Less(valueForRange, def.minValue)
    THEN <<SettingError(identifier, MsgMin(def.minValue))>> ELSE <<>>

\* the two range checks on valueForRange
rangeErrors(identifier, def, valueForRange) ==
    (IF def.minValue # Undefined /\ Less(valueForRange, def.minValue)
     THEN <<SettingError(identifier, MsgMin(def.minValue))>> ELSE <<>>)
    \o
    (IF def.maxValue # Undefined /\ Greater(valueForRange, def.maxValue)
     THEN <<SettingError(identifier, MsgMax(def.maxValue))>> ELSE <<>>)

\* numberErrors with the range check on the value as proposed
numberErrorsRawRange(identifier, def, provided, effectiveValue) ==
    LET settingUom == def.uom
        providedUom == OptUom(provided)
    IN IF typeof(effectiveValue) # "number" \/ isNaN(effectiveValue)
       THEN <<SettingError(identifier, MsgNumber)>>
       ELSE IF providedUom # NoUom /\ settingUom = NoUom
       THEN <<SettingError(identifier, MsgUomNotSupported)>>
       ELSE IF settingUom # NoUom /\ providedUom # NoUom /\ providedUom # settingUom
       THEN LET conv == convertUom(effectiveValue, providedUom, settingUom)
            IN IF conv = Undefined
               THEN <<SettingError(identifier, MsgUomNotConvertible)>>
               ELSE rangeErrors(identifier, def, effectiveValue)
       ELSE rangeErrors(identifier, def, effectiveValue)

\* numberErrors going on to the range check after a unit that is not convertible
numberErrorsConvertibleFallsThrough(identifier, def, provided, effectiveValue) ==
    LET settingUom == def.uom
        providedUom == OptUom(provided)
    IN IF typeof(effectiveValue) # "number" \/ isNaN(effectiveValue)
       THEN <<SettingError(identifier, MsgNumber)>>
       ELSE IF providedUom # NoUom /\ settingUom = NoUom
       THEN <<SettingError(identifier, MsgUomNotSupported)>>
       ELSE IF settingUom # NoUom /\ providedUom # NoUom /\ providedUom # settingUom
       THEN LET conv == convertUom(effectiveValue, providedUom, settingUom)
            IN IF conv = Undefined
               THEN <<SettingError(identifier, MsgUomNotConvertible)>>
                    \o rangeErrors(identifier, def, effectiveValue)
               ELSE rangeErrors(identifier, def, conv)
       ELSE rangeErrors(identifier, def, effectiveValue)

\* numberErrors going on to the range check after a unit that is not supported
numberErrorsSupportedFallsThrough(identifier, def, provided, effectiveValue) ==
    LET settingUom == def.uom
        providedUom == OptUom(provided)
    IN IF typeof(effectiveValue) # "number" \/ isNaN(effectiveValue)
       THEN <<SettingError(identifier, MsgNumber)>>
       ELSE IF providedUom # NoUom /\ settingUom = NoUom
       THEN <<SettingError(identifier, MsgUomNotSupported)>>
            \o rangeErrors(identifier, def, effectiveValue)
       ELSE IF settingUom # NoUom /\ providedUom # NoUom /\ providedUom # settingUom
       THEN LET conv == convertUom(effectiveValue, providedUom, settingUom)
            IN IF conv = Undefined
               THEN <<SettingError(identifier, MsgUomNotConvertible)>>
               ELSE rangeErrors(identifier, def, conv)
       ELSE rangeErrors(identifier, def, effectiveValue)

\* numberErrors without the check for NaN
numberErrorsNoNaN(identifier, def, provided, effectiveValue) ==
    LET settingUom == def.uom
        providedUom == OptUom(provided)
    IN IF typeof(effectiveValue) # "number"
       THEN <<SettingError(identifier, MsgNumber)>>
       ELSE IF providedUom # NoUom /\ settingUom = NoUom
       THEN <<SettingError(identifier, MsgUomNotSupported)>>
       ELSE IF settingUom # NoUom /\ providedUom # NoUom /\ providedUom # settingUom
       THEN LET conv == convertUom(effectiveValue, providedUom, settingUom)
            IN IF conv = Undefined
               THEN <<SettingError(identifier, MsgUomNotConvertible)>>
               ELSE rangeErrors(identifier, def, conv)
       ELSE rangeErrors(identifier, def, effectiveValue)

\* case SettingType.NUMBER of the switch
\* numberErrors with the checks of the unit and the range made after a failed
\* check of the type as well
numberErrorsTypeFallsThrough(identifier, def, provided, effectiveValue) ==
    LET settingUom == def.uom
        providedUom == OptUom(provided)
        typeError == IF typeof(effectiveValue) # "number" \/ isNaN(effectiveValue)
                     THEN <<SettingError(identifier, MsgNumber)>> ELSE <<>>
    IN typeError \o
       (IF providedUom # NoUom /\ settingUom = NoUom
        THEN <<SettingError(identifier, MsgUomNotSupported)>>
        ELSE IF settingUom # NoUom /\ providedUom # NoUom /\ providedUom # settingUom
        THEN IF ~SameClassOfUnits(providedUom, settingUom)
             THEN <<SettingError(identifier, MsgUomNotConvertible)>>
             ELSE <<>>
        ELSE <<>>)

\* numberErrors with the unit of the definition required of the proposal
numberErrorsUnitRequired(identifier, def, provided, effectiveValue) ==
    LET settingUom == def.uom
        providedUom == OptUom(provided)
    IN IF typeof(effectiveValue) # "number" \/ isNaN(effectiveValue)
       THEN <<SettingError(identifier, MsgNumber)>>
       ELSE IF (providedUom # NoUom /\ settingUom = NoUom)
               \/ (providedUom = NoUom /\ settingUom # NoUom)
       THEN <<SettingError(identifier, MsgUomNotSupported)>>
       ELSE IF settingUom # NoUom /\ providedUom # NoUom /\ providedUom # settingUom
       THEN LET conv == convertUom(effectiveValue, providedUom, settingUom)
            IN IF conv = Undefined
               THEN <<SettingError(identifier, MsgUomNotConvertible)>>
               ELSE rangeErrors(identifier, def, conv)
       ELSE rangeErrors(identifier, def, effectiveValue)

numberErrors(identifier, def, provided, effectiveValue) ==
    LET settingUom == def.uom
        providedUom == OptUom(provided)
    IN IF typeof(effectiveValue) # "number" \/ isNaN(effectiveValue)
       THEN <<SettingError(identifier, MsgNumber)>>
       ELSE IF providedUom # NoUom /\ settingUom = NoUom
       THEN <<SettingError(identifier, MsgUomNotSupported)>>
       ELSE IF settingUom # NoUom /\ providedUom # NoUom /\ providedUom # settingUom
       THEN LET conv == convertUom(effectiveValue, providedUom, settingUom)
            IN IF conv = Undefined
               THEN <<SettingError(identifier, MsgUomNotConvertible)>>
               ELSE rangeErrors(identifier, def, conv)
       ELSE rangeErrors(identifier, def, effectiveValue)

\* the switch on def.type
typeErrors(identifier, def, provided, effectiveValue) ==
    CASE def.type = SettingTypeSTRING ->
           IF typeof(effectiveValue) # "string"
           THEN <<SettingError(identifier, MsgString)>> ELSE <<>>
      [] def.type = SettingTypeBOOLEAN ->
           IF typeof(effectiveValue) # "boolean"
           THEN <<SettingError(identifier, MsgBoolean)>> ELSE <<>>
      [] def.type = SettingTypeNUMBER ->
           numberErrors(identifier, def, provided, effectiveValue)
      [] OTHER -> <<>>

\* the check that a unit goes with a numeric setting only
uomErrors(identifier, def, provided) ==
    IF def.type # SettingTypeNUMBER /\ OptUom(provided) # NoUom
    THEN <<SettingError(identifier, MsgUomNotNumeric)>> ELSE <<>>

\* definitionErrors going on to the other checks after the missing value
definitionErrorsNoContinue(identifier, def, provided) ==
    LET nullable == (def.nullable = Bool(TRUE))
        hasProvidedValue == OptValue(provided) # Undefined
        defaultValue == def.defaultValue
        hasDefaultValue == defaultValue # Undefined
        effectiveValue == IF hasProvidedValue THEN OptValue(provided) ELSE defaultValue
    IN (IF ~nullable /\ ~hasProvidedValue /\ ~hasDefaultValue
        THEN <<SettingError(identifier, MsgMissing)>> ELSE <<>>)
       \o (IF effectiveValue = Undefined
           THEN uomErrors(identifier, def, provided)
           ELSE uomErrors(identifier, def, provided)
                \o typeErrors(identifier, def, provided, effectiveValue))

\* definitionErrors without the unit check of a definition left without value
definitionErrorsLenient(identifier, def, provided) ==
    LET nullable == (def.nullable = Bool(TRUE))
        hasProvidedValue == OptValue(provided) # Undefined
        defaultValue == def.defaultValue
        hasDefaultValue == defaultValue # Undefined
        effectiveValue == IF hasProvidedValue THEN OptValue(provided) ELSE defaultValue
    IN IF ~nullable /\ ~hasProvidedValue /\ ~hasDefaultValue
       THEN <<SettingError(identifier, MsgMissing)>>
       ELSE IF effectiveValue = Undefined
       THEN <<>>
       ELSE uomErrors(identifier, def, provided)
            \o typeErrors(identifier, def, provided, effectiveValue)

\* definitionErrors with nullable left out of the check for a missing value
definitionErrorsNullableIgnored(identifier, def, provided) ==
    LET hasProvidedValue == OptValue(provided) # Undefined
        defaultValue == def.defaultValue
        hasDefaultValue == defaultValue # Undefined
        effectiveValue == IF hasProvidedValue THEN OptValue(provided) ELSE defaultValue
    IN IF ~hasProvidedValue /\ ~hasDefaultValue
       THEN <<SettingError(identifier, MsgMissing)>>
       ELSE uomErrors(identifier, def, provided)
            \o typeErrors(identifier, def, provided, effectiveValue)

\* definitionErrors with the default left out: a value has to be proposed
definitionErrorsDefaultIgnored(identifier, def, provided) ==
    LET nullable == (def.nullable = Bool(TRUE))
        hasProvidedValue == OptValue(provided) # Undefined
        effectiveValue == OptValue(provided)
    IN IF ~nullable /\ ~hasProvidedValue
       THEN <<SettingError(identifier, MsgMissing)>>
       ELSE IF effectiveValue = Undefined
       THEN uomErrors(identifier, def, provided)
       ELSE uomErrors(identifier, def, provided)
            \o typeErrors(identifier, def, provided, effectiveValue)

\* definitionErrors with the unit of a proposal without value left aside
definitionErrorsUnitNeedsValue(identifier, def, provided) ==
    LET nullable == (def.nullable = Bool(TRUE))
        hasProvidedValue == OptValue(provided) # Undefined
        defaultValue == def.defaultValue
        hasDefaultValue == defaultValue # Undefined
        effectiveValue == IF hasProvidedValue THEN OptValue(provided) ELSE defaultValue
        withValue == IF hasProvidedValue THEN provided ELSE <<>>
    IN IF ~nullable /\ ~hasProvidedValue /\ ~hasDefaultValue
       THEN <<SettingError(identifier, MsgMissing)>>
       ELSE IF effectiveValue = Undefined
       THEN uomErrors(identifier, def, provided)
       ELSE uomErrors(identifier, def, provided)
            \o typeErrors(identifier, def, withValue, effectiveValue)

\* one pass of the loop over definitionMap.entries()
definitionErrors(identifier, def, provided) ==
    LET nullable == (def.nullable = Bool(TRUE))
        hasProvidedValue == OptValue(provided) # Undefined
        defaultValue == def.defaultValue
        hasDefaultValue == defaultValue # Undefined
        effectiveValue == IF hasProvidedValue THEN OptValue(provided) ELSE defaultValue
    IN IF ~nullable /\ ~hasProvidedValue /\ ~hasDefaultValue
       THEN <<SettingError(identifier, MsgMissing)>>
       ELSE IF effectiveValue = Undefined
       THEN uomErrors(identifier, def, provided)
       ELSE uomErrors(identifier, def, provided)
            \o typeErrors(identifier, def, provided, effectiveValue)

\* checkDefinitions that stops at the first definition with an error
RECURSIVE checkDefinitionsStopAtFirst(_, _, _)
checkDefinitionsStopAtFirst(defMap, providedMap, k) ==
    IF k = 0 THEN <<>>
    ELSE LET before == checkDefinitionsStopAtFirst(defMap, providedMap, k - 1)
         IN IF before # <<>> THEN before
            ELSE definitionErrors(defMap[k].key, defMap[k].val,
                                  MapGet(providedMap, defMap[k].key))

\* the errors pushed by the first k passes of the loop over the definitions
RECURSIVE checkDefinitions(_, _, _)
checkDefinitions(defMap, providedMap, k) ==
    IF k = 0 THEN <<>>
    ELSE checkDefinitions(defMap, providedMap, k - 1)
         \o definitionErrors(defMap[k].key, defMap[k].val, MapGet(providedMap, defMap[k].key))

\* verifySettings with the errors of the unknown identifiers first
verifySettingsUnknownFirst(defs, vals) ==
    LET defMap == definitionMapOf(defs, Len(defs))
        matched == matchProvided(defMap, vals, Len(vals))
    IN matched.errors
       \o duplicateErrors(vals)
       \o checkDefinitions(defMap, matched.providedMap, Len(defMap))

verifySettings(defs, vals) ==
    LET defMap == definitionMapOf(defs, Len(defs))
        matched == matchProvided(defMap, vals, Len(vals))
    IN duplicateErrors(vals)
       \o matched.errors
       \o checkDefinitions(defMap, matched.providedMap, Len(defMap))

----------------------------------------------------------------------------
(* The machines and the inputs the operations are called with.             *)

\* most definitions of a test machine, most proposals of one call
MaxDefs == 2
MaxValues == 3

Setting(id, type, nullable, defaultValue, uom, minValue, maxValue) ==
    [identifier |-> id, type |-> type, nullable |-> nullable,
     defaultValue |-> defaultValue, uom |-> uom,
     minValue |-> minValue, maxValue |-> maxValue]

SettingValue(id, v, uom) == [identifier |-> id, value |-> v, uom |-> uom]

\* the identifier of the i-th definition of a machine
identifierOf(i) == "id" \o ToString(i)

\* Definitions of the TestMachine of the test suite: requiredNoDefault,
\* stringWithDefault, tempC, nullableNumber.
TestSettings ==
    { Setting("", SettingTypeBOOLEAN, Undefined, Undefined, NoUom, Undefined, Undefined),
      Setting("", SettingTypeSTRING, Undefined, Str("hello"), NoUom, Undefined, Undefined),
      Setting("", SettingTypeNUMBER, Undefined, Undefined, DEGREE_CELSIUS, Num(0), Num(100)),
      Setting("", SettingTypeNUMBER, Bool(TRUE), Undefined, NoUom, Undefined, Undefined) }

\* machines of up to MaxDefs test definitions, identified by position
TestMachines ==
    UNION { { [i \in 1..k |-> [f[i] EXCEPT !.identifier = identifierOf(i)]] :
                f \in [1..k -> TestSettings] } : k \in 0..MaxDefs }

\* the proposals of a call on a test machine
TestValues ==
    { SettingValue(id, vu[1], vu[2]) :
        id \in {identifierOf(1), identifierOf(2)},
        vu \in { <<Undefined, NoUom>>, <<Bool(TRUE), NoUom>>,
                 <<Num(50), DEGREE_FAHRENHEIT>> } }

TestBatches == UNION { [1..k -> TestValues] : k \in 0..MaxValues }

\* the numbers proposed, and the bounds and defaults of a definition
Numbers == { Num(i) : i \in {-1, 0, 31, 32, 100, 101, 212, 213, 6000, 6001} }

OptionalUom == UnitOfMeasure \cup {NoUom}

Nullables == {Undefined, Bool(FALSE), Bool(TRUE)}

\* every definition of one setting, over the whole range of its attributes
AnySettings ==
    { Setting(identifierOf(1), SettingTypeNUMBER, nl, dv, uom, lo, hi) :
        nl \in Nullables, dv \in {Undefined, Num(50), Num(500)}, uom \in OptionalUom,
        lo \in {Undefined, Num(0), Num(32)}, hi \in {Undefined, Num(100), Num(212)} }
    \cup
    { Setting(identifierOf(1), type, nl, dv, NoUom, Undefined, Undefined) :
        type \in {SettingTypeSTRING, SettingTypeBOOLEAN}, nl \in Nullables,
        dv \in {Undefined, Str("PP"), Bool(FALSE)} }
    \cup
    \* bounds that no value lies within
    { Setting(identifierOf(1), SettingTypeNUMBER, Undefined, Undefined, uom,
              Num(212), Num(0)) : uom \in {NoUom, DEGREE_FAHRENHEIT} }

SingleMachines == { <<def>> : def \in AnySettings }

\* the calls with at most one proposal, over the whole range of its attributes
SingleBatches ==
    {<<>>} \cup
    { <<SettingValue(identifierOf(1), v, uom)>> :
        v \in Numbers \cup {Undefined, NaN, Str("a"), Bool(TRUE)}, uom \in OptionalUom }

Machines == TestMachines \cup SingleMachines

\* the batches a machine is called with
Batches(machine) == IF machine \in TestMachines THEN TestBatches ELSE SingleBatches

\* half of Number.MAX_VALUE
HalfMaxValue == Double(1, 2, 0, 1)

\* the values convertUom is called with
ConvertValues == { Num(i) : i \in {-40, 0, 1, 60, 100} } \cup {NaN, HalfMaxValue}

----------------------------------------------------------------------------
(* InjectionMolder *)

InjectionMolderSettings ==
    << Setting("materialName", SettingTypeSTRING, Undefined, Str("PP"), NoUom,
               Undefined, Undefined),
       Setting("guardsClosedRequired", SettingTypeBOOLEAN, Undefined, Undefined, NoUom,
               Undefined, Undefined),
       Setting("barrelTemperature", SettingTypeNUMBER, Undefined, Num(230),
               DEGREE_CELSIUS, Undefined, Undefined),
       Setting("moldTemperature", SettingTypeNUMBER, Undefined, Num(60),
               DEGREE_CELSIUS, Undefined, Undefined),
       Setting("injectionPressure", SettingTypeNUMBER, Undefined, Num(1200), BAR,
               Undefined, Undefined),
       Setting("screwSpeed", SettingTypeNUMBER, Undefined, Num(80), RPM,
               Undefined, Undefined),
       Setting("coolingTime", SettingTypeNUMBER, Bool(TRUE), Undefined, SECOND,
               Undefined, Undefined) >>

\* null of JSON
Null == [t |-> "object", s |-> "", b |-> FALSE, nan |-> FALSE,
     inf |-> 0, n |-> 0, d |-> 1, e |-> 0, m |-> 0]

\* JSON.stringify of a property value: NaN and the infinities become null;
\* an undefined property is left out, which Undefined stands for as well
JsonValue(v) == IF typeof(v) = "number" /\ (v.nan \/ v.inf # 0) THEN Null ELSE v

\* JSON.stringify(settings, null, 2): the text, as the array it denotes
JsonStringify(vals) ==
    [i \in 1..Len(vals) |-> [vals[i] EXCEPT !.value = JsonValue(@)]]

\* applySettings with the file written before the proposals are verified
applySettingsWriteFirst(defs, f, vals) ==
    [errors |-> verifySettings(defs, vals), file |-> <<JsonStringify(vals)>>]

\* applySettings with the proposals added to those the file holds
applySettingsMerging(defs, f, vals) ==
    LET errs == verifySettings(defs, vals)
    IN IF Len(errs) > 0
       THEN [errors |-> errs, file |-> f]
       ELSE [errors |-> <<>>,
             file |-> <<(IF f = <<>> THEN <<>> ELSE f[1]) \o JsonStringify(vals)>>]

\* the errors returned and the file left by applySettings, f the file before
applySettings(defs, f, vals) ==
    LET errs == verifySettings(defs, vals)
    IN IF Len(errs) > 0
       THEN [errors |-> errs, file |-> f]
       ELSE [errors |-> <<>>, file |-> <<JsonStringify(vals)>>]

\* the proposals of a call on the injection molder
MolderValues ==
    { SettingValue("guardsClosedRequired", Bool(TRUE), NoUom),
      SettingValue("barrelTemperature", Num(446), DEGREE_FAHRENHEIT),
      SettingValue("coolingTime", Num(2), MINUTE),
      SettingValue("coolingTime", Num(5), BAR) }

MolderBatches == UNION { [1..k -> MolderValues] : k \in 0..MaxValues }

----------------------------------------------------------------------------
(* The server: configureRouter and demoRouter *)

\* no request answered, no response given
NoRequest == [path |-> "", name |-> "", isArray |-> FALSE, a |-> Undefined, b |-> Undefined]

NoResponse ==
    [status |-> 0, error |-> "", errors |-> <<>>, message |-> "", machine |-> "",
     result |-> Undefined]

\* the name the registry holds the injection molder under
RegisteredName == "molder1"

\* the names requested: the registered one, one unknown, and one that every
\* object inherits a property for
Names == {RegisteredName, "molder2", "constructor"}

\* machines[name]: "own" for the registered machine, "inherited" for a
\* property of Object.prototype, "undefined" else
MachineOf(name) ==
    IF name = RegisteredName THEN "own"
    ELSE IF name \in {"constructor", "toString", "valueOf", "hasOwnProperty", "__proto__"}
    THEN "inherited"
    ELSE "undefined"

\* req.body: settings is an array of proposals, or is not an array
Bodies ==
    { [isArray |-> TRUE, settings |-> vals] : vals \in MolderBatches }
    \cup { [isArray |-> FALSE, settings |-> <<>>] }

MsgNameRequired == "Machine name is required"
MsgNotFound(name) == "Machine '" \o name \o "' not found"
MsgNoArray == "Request body must contain a \"settings\" array"
MsgValidationFailed == "Settings validation failed"
MsgApplied(name) == "Settings applied successfully to machine '" \o name \o "'"

\* postSettings with the success message whatever applySettings returns
postSettingsSuccessAnyway(defs, f, name, body) ==
    LET applied == applySettings(defs, f, body.settings)
    IN IF name = RegisteredName /\ body.isArray
       THEN [errors |-> applied.errors, file |-> applied.file,
             response |-> [NoResponse EXCEPT !.status = 200,
                                             !.message = MsgApplied(name),
                                             !.machine = name]]
       ELSE [errors |-> <<>>, file |-> f,
             response |-> [NoResponse EXCEPT !.status = 404, !.error = MsgNotFound(name)]]

\* the handler of POST /machines/:name/settings: the response, the errors of
\* applySettings and the file left, f the file before.  An inherited property
\* is no machine: the call of applySettings throws, which the server answers
\* with status 500.
postSettings(defs, f, name, body) ==
    LET applied == applySettings(defs, f, body.settings)
        quiet == [errors |-> <<>>, file |-> f]
        IN CASE name = "" ->
              [errors |-> <<>>, file |-> f,
               response |-> [NoResponse EXCEPT !.status = 400, !.error = MsgNameRequired]]
         [] name # "" /\ MachineOf(name) = "undefined" ->
              [errors |-> <<>>, file |-> f,
               response |-> [NoResponse EXCEPT !.status = 404, !.error = MsgNotFound(name)]]
         [] name # "" /\ MachineOf(name) # "undefined" /\ ~body.isArray ->
              [errors |-> <<>>, file |-> f,
               response |-> [NoResponse EXCEPT !.status = 400, !.error = MsgNoArray]]
         [] name # "" /\ MachineOf(name) = "inherited" /\ body.isArray ->
              [errors |-> <<>>, file |-> f,
               response |-> [NoResponse EXCEPT !.status = 500]]
         [] name # "" /\ MachineOf(name) = "own" /\ body.isArray ->
              IF Len(applied.errors) > 0
              THEN [errors |-> applied.errors, file |-> applied.file,
                    response |-> [NoResponse EXCEPT !.status = 400,
                                                    !.error = MsgValidationFailed,
                                                    !.errors = applied.errors]]
              ELSE [errors |-> applied.errors, file |-> applied.file,
                    response |-> [NoResponse EXCEPT !.status = 200,
                                                    !.message = MsgApplied(name),
                                                    !.machine = name]]

\* add(a, b) of the shared package, for numbers free of the pressure factor
add(a, b) ==
    IF a.nan \/ b.nan THEN NaN
    ELSE IF a.e # 0 \/ b.e # 0 \/ a.m # 0 \/ b.m # 0 \/ a.inf # 0 \/ b.inf # 0
    THEN Unsupported
    ELSE Ratio(a.n * b.d + b.n * a.d, a.d * b.d, 0)

MsgBothNumbers == "Both a and b must be numbers"

\* postAdd with the type of a checked only
postAddChecksAOnly(a, b) ==
    IF typeof(a) # "number"
    THEN [response |-> [NoResponse EXCEPT !.status = 400, !.error = MsgBothNumbers],
          addCalls |-> <<>>]
    ELSE [response |-> [NoResponse EXCEPT !.status = 200, !.result = add(a, b)],
          addCalls |-> <<<<a, b>>>>]

\* the handler of POST /add: the response and the calls of add
postAdd(a, b) ==
    IF typeof(a) # "number" \/ typeof(b) # "number"
    THEN [response |-> [NoResponse EXCEPT !.status = 400, !.error = MsgBothNumbers],
          addCalls |-> <<>>]
    ELSE [response |-> [NoResponse EXCEPT !.status = 200, !.result = add(a, b)],
          addCalls |-> <<<<a, b>>>>]

\* a and b of the request body: missing, null, a string, numbers
AddValues == {Undefined, Null, Str("5"), Num(-5), Num(0), Num(3)}

----------------------------------------------------------------------------
(* The starter variant of ConfigurableMachine: verifySettings and           *)
(* convertUom, with null for a value that is not given.                     *)

StarterSetting(id, dataType, nullable, defaultValue, uom, minValue, maxValue) ==
    [identifier |-> id, dataType |-> dataType, nullable |-> nullable,
     defaultValue |-> defaultValue, uom |-> uom,
     minValue |-> minValue, maxValue |-> maxValue]

StarterMsgDuplicate == "Duplicate identifier"
StarterMsgUnknown == "Setting identifier does not exist"
StarterMsgValueRequired == "Value is required (not nullable and no default value)"
StarterMsgExpected(expected, valueType) ==
    "Expected " \o expected \o " value, got " \o valueType
StarterMsgUomRequired(uom) == "Unit of measure is required, expected " \o uom
StarterMsgCannotConvert(fromUom, toUom) ==
    "Cannot convert from " \o fromUom \o " to " \o toUom
StarterMsgMissing == "Required setting is missing"

\* `${numValue}`: an integer in decimal digits; another number is written
\* exactly, as numerator/denominator, in place of its decimal digits
NumberText(v) ==
    IF v.nan THEN "NaN"
    ELSE IF v.inf # 0 \/ v.e # 0 \/ v.m # 0 THEN Unsupported
    ELSE IF v.d = 1 THEN ToString(v.n)
    ELSE ToString(v.n) \o "/" \o ToString(v.d)

StarterMsgMin(numValue, minValue) ==
    "Value " \o NumberText(numValue) \o " is below minimum " \o NumberText(minValue)
StarterMsgMax(numValue, maxValue) ==
    "Value " \o NumberText(numValue) \o " exceeds maximum " \o NumberText(maxValue)

\* convertUom of the starter: null for units without a formula.  The factor
\* of the pressure formulas is 14.5038, which the numbers of this module do
\* not represent.
starterConvertUom(v, fromUom, toUom) ==
    IF fromUom = toUom THEN v
    ELSE IF fromUom = DEGREE_CELSIUS /\ toUom = DEGREE_FAHRENHEIT
    THEN Plus(Over(Times(v, 9), 5), 32)
    ELSE IF fromUom = DEGREE_FAHRENHEIT /\ toUom = DEGREE_CELSIUS
    THEN Over(Times(Plus(v, -32), 5), 9)
    ELSE IF fromUom = BAR /\ toUom = PSI THEN Unsupported
    ELSE IF fromUom = PSI /\ toUom = BAR THEN Unsupported
    ELSE IF fromUom = RPM /\ toUom = RPS THEN Over(v, 60)
    ELSE IF fromUom = RPS /\ toUom = RPM THEN Times(v, 60)
    ELSE IF fromUom = MINUTE /\ toUom = SECOND THEN Times(v, 60)
    ELSE IF fromUom = SECOND /\ toUom = MINUTE THEN Over(v, 60)
    ELSE Null

\* the errors pushed by the first loop: one for every repeat of an identifier
starterDuplicateErrors(vals) ==
    LET repeats == SelectSeq([i \in 1..Len(vals) |-> i],
                             LAMBDA i : \E j \in 1..(i - 1) :
                                            vals[j].identifier = vals[i].identifier)
    IN [r \in 1..Len(repeats) |->
           SettingError(vals[repeats[r]].identifier, StarterMsgDuplicate)]

\* the checks of the minimum and the maximum
starterRangeErrors(identifier, numMetadata, numValue) ==
    (IF numMetadata.minValue # Undefined /\ Less(numValue, numMetadata.minValue)
     THEN <<SettingError(identifier, StarterMsgMin(numValue, numMetadata.minValue))>>
     ELSE <<>>)
    \o (IF numMetadata.maxValue # Undefined /\ Greater(numValue, numMetadata.maxValue)
        THEN <<SettingError(identifier, StarterMsgMax(numValue, numMetadata.maxValue))>>
        ELSE <<>>)

\* starterNumberErrors with the range checked whatever the unit check says
starterNumberErrorsRangeAnyway(settingValue, numMetadata) ==
    LET id == settingValue.identifier
        convertedValue == starterConvertUom(settingValue.value, settingValue.uom,
                                            numMetadata.uom)
    IN IF numMetadata.uom # NoUom
       THEN IF settingValue.uom = NoUom
            THEN <<SettingError(id, StarterMsgUomRequired(numMetadata.uom))>>
                 \o starterRangeErrors(id, numMetadata, settingValue.value)
            ELSE IF convertedValue = Null
            THEN <<SettingError(id, StarterMsgCannotConvert(settingValue.uom,
                                                            numMetadata.uom))>>
                 \o starterRangeErrors(id, numMetadata, settingValue.value)
            ELSE starterRangeErrors(id, numMetadata, convertedValue)
       ELSE starterRangeErrors(id, numMetadata, settingValue.value)

\* the checks of a number for a numeric setting: unit, conversion, range
starterNumberErrors(settingValue, numMetadata) ==
    LET id == settingValue.identifier
        convertedValue == starterConvertUom(settingValue.value, settingValue.uom,
                                            numMetadata.uom)
    IN IF numMetadata.uom # NoUom
       THEN IF settingValue.uom = NoUom
            THEN <<SettingError(id, StarterMsgUomRequired(numMetadata.uom))>>
            ELSE IF convertedValue = Null
            THEN <<SettingError(id, StarterMsgCannotConvert(settingValue.uom,
                                                            numMetadata.uom))>>
            ELSE starterRangeErrors(id, numMetadata, convertedValue)
       ELSE starterRangeErrors(id, numMetadata, settingValue.value)

\* one pass of the loop over the proposals
starterValueErrors(validSettings, settingValue) ==
    LET id == settingValue.identifier
        found == MapGet(validSettings, id)
        metadata == found[1]
        valueType == typeof(settingValue.value)
    IN IF found = <<>>
       THEN <<SettingError(id, StarterMsgUnknown)>>
       ELSE IF settingValue.value = Null
       THEN IF metadata.nullable # Bool(TRUE) /\ metadata.defaultValue = Null
            THEN <<SettingError(id, StarterMsgValueRequired)>>
            ELSE <<>>
       ELSE (IF metadata.dataType = SettingTypeSTRING /\ valueType # "string"
             THEN <<SettingError(id, StarterMsgExpected("string", valueType))>>
             ELSE IF metadata.dataType = SettingTypeNUMBER /\ valueType # "number"
             THEN <<SettingError(id, StarterMsgExpected("number", valueType))>>
             ELSE IF metadata.dataType = SettingTypeBOOLEAN /\ valueType # "boolean"
             THEN <<SettingError(id, StarterMsgExpected("boolean", valueType))>>
             ELSE <<>>)
            \o (IF metadata.dataType = SettingTypeNUMBER /\ valueType = "number"
                THEN starterNumberErrors(settingValue, metadata)
                ELSE <<>>)

\* the errors pushed by the first k passes of the loop over the proposals
RECURSIVE starterCheckValues(_, _, _)
starterCheckValues(validSettings, vals, k) ==
    IF k = 0 THEN <<>>
    ELSE starterCheckValues(validSettings, vals, k - 1)
         \o starterValueErrors(validSettings, vals[k])

\* starterMissingErrors with a proposal of null taken for a value
RECURSIVE starterMissingErrorsNullCounts(_, _, _)
starterMissingErrorsNullCounts(defs, vals, k) ==
    IF k = 0 THEN <<>>
    ELSE starterMissingErrorsNullCounts(defs, vals, k - 1)
         \o (IF /\ defs[k].nullable # Bool(TRUE)
                /\ defs[k].defaultValue = Null
                /\ ~\E i \in 1..Len(vals) : vals[i].identifier = defs[k].identifier
             THEN <<SettingError(defs[k].identifier, StarterMsgMissing)>>
             ELSE <<>>)

\* the errors pushed by the first k passes of the last loop, over
\* this.settings
RECURSIVE starterMissingErrors(_, _, _)
starterMissingErrors(defs, vals, k) ==
    IF k = 0 THEN <<>>
    ELSE starterMissingErrors(defs, vals, k - 1)
         \o (IF /\ defs[k].nullable # Bool(TRUE)
                /\ defs[k].defaultValue = Null
                /\ ~\E i \in 1..Len(vals) :
                       /\ vals[i].identifier = defs[k].identifier
                       /\ vals[i].value # Null
             THEN <<SettingError(defs[k].identifier, StarterMsgMissing)>>
             ELSE <<>>)

starterVerifySettings(defs, vals) ==
    starterDuplicateErrors(vals)
    \o starterCheckValues(definitionMapOf(defs, Len(defs)), vals, Len(vals))
    \o starterMissingErrors(defs, vals, Len(defs))

\* the TestMachine of the tests of the starter: temp, name, enabled,
\* optionalNum
StarterTestMachine ==
    << StarterSetting("temp", SettingTypeNUMBER, Bool(FALSE), Null, DEGREE_CELSIUS,
                      Num(0), Num(100)),
       StarterSetting("name", SettingTypeSTRING, Bool(FALSE), Str("default"), NoUom,
                      Undefined, Undefined),
       StarterSetting("enabled", SettingTypeBOOLEAN, Bool(TRUE), Null, NoUom,
                      Undefined, Undefined),
       StarterSetting("optionalNum", SettingTypeNUMBER, Bool(FALSE), Num(42), NoUom,
                      Undefined, Undefined) >>

\* the proposals of a call on that machine
StarterTestValues ==
    { SettingValue("temp", Null, NoUom),
      SettingValue("temp", Num(50), NoUom),
      SettingValue("temp", Num(50), RPM),
      SettingValue("temp", Num(213), DEGREE_FAHRENHEIT),
      SettingValue("enabled", Null, NoUom),
      SettingValue("invalid", Num(123), NoUom) }

StarterTestBatches == UNION { [1..k -> StarterTestValues] : k \in 0..MaxValues }

\* every definition of one setting of the starter, over the range of its
\* attributes
StarterAnySettings ==
    { StarterSetting(identifierOf(1), SettingTypeNUMBER, nl, dv, uom, lo, hi) :
        nl \in {Bool(FALSE), Bool(TRUE)}, dv \in {Null, Num(50)},
        uom \in {NoUom, DEGREE_CELSIUS, DEGREE_FAHRENHEIT},
        lo \in {Undefined, Num(0)}, hi \in {Undefined, Num(100)} }
    \cup
    { StarterSetting(identifierOf(1), dataType, nl, dv, NoUom, Undefined, Undefined) :
        dataType \in {SettingTypeSTRING, SettingTypeBOOLEAN},
        nl \in {Bool(FALSE), Bool(TRUE)}, dv \in {Null, Str("default")} }

StarterSingleMachines == { <<def>> : def \in StarterAnySettings }

\* the calls with at most one proposal for such a definition
StarterSingleBatches ==
    {<<>>} \cup
    { <<SettingValue(identifierOf(1), v, uom)>> :
        v \in {Null, NaN, Num(-1), Num(31), Num(50), Num(101), Num(213), Str("a"),
               Bool(TRUE)},
        uom \in {NoUom, DEGREE_CELSIUS, DEGREE_FAHRENHEIT, RPM} }

StarterMachines == {StarterTestMachine} \cup StarterSingleMachines

StarterBatches(machine) ==
    IF machine = StarterTestMachine THEN StarterTestBatches ELSE StarterSingleBatches

----------------------------------------------------------------------------
(* The state machine: a machine is constructed, then its methods are       *)
(* called one after the other, in any order; each call runs to its return  *)
(* (the methods and the handlers are synchronous), and the caller takes    *)
(* the result.  The server holds the injection molder.                     *)

Init ==
    /\ settings \in Machines \cup {InjectionMolderSettings} \cup StarterMachines
    /\ op = "idle"
    /\ values = <<>>
    /\ valuesAfter = <<>>
    /\ errors = <<>>
    /\ value = Undefined
    /\ from = NoUom
    /\ to = NoUom
    /\ converted = Undefined
    /\ back = Undefined
    /\ file = <<>>
    /\ request = NoRequest
    /\ response = NoResponse
    /\ addCalls = <<>>

\* VerifySettings with the proposals taken out of the array passed
VerifySettingsConsuming ==
    \E vals \in Batches(settings) :
        /\ op = "idle"
        /\ settings \in Machines
        /\ op' = "verifySettings"
        /\ values' = vals
        /\ valuesAfter' = <<>>
        /\ errors' = verifySettings(settings, vals)
        /\ UNCHANGED <<settings, value, from, to, converted, back, file, request,
                       response, addCalls>>

\* TestMachine.verify(values): return this.verifySettings(values)
VerifySettings ==
    \E vals \in Batches(settings) :
        /\ op = "idle"
        /\ settings \in Machines
        /\ op' = "verifySettings"
        /\ values' = vals
        /\ valuesAfter' = vals
        /\ errors' = verifySettings(settings, vals)
        /\ UNCHANGED <<settings, value, from, to, converted, back, file, request,
                       response, addCalls>>

\* machine['verifySettings'](values) on a machine of the starter
StarterVerifySettings ==
    \E vals \in StarterBatches(settings) :
        /\ op = "idle"
        /\ settings \in StarterMachines
        /\ op' = "starterVerifySettings"
        /\ values' = vals
        /\ valuesAfter' = vals
        /\ errors' = starterVerifySettings(settings, vals)
        /\ UNCHANGED <<settings, value, from, to, converted, back, file, request,
                       response, addCalls>>

\* this.convertUom(value, from, to): the method is protected, and is called
\* from outside through a test machine; it reads nothing of the machine, so
\* the machine without definitions stands for all
ConvertUom ==
    \E v \in ConvertValues, f \in UnitOfMeasure, u \in UnitOfMeasure :
        /\ op = "idle"
        /\ settings = <<>>
        /\ op' = "convertUom"
        /\ value' = v
        /\ from' = f
        /\ to' = u
        /\ converted' = convertUom(v, f, u)
        /\ UNCHANGED <<settings, values, valuesAfter, errors, back, file, request,
                       response, addCalls>>

\* this.convertUom(converted, to, from): the number a conversion gave is
\* converted back
ConvertUomBack ==
    /\ op = "convertUom"
    /\ typeof(converted) = "number"
    /\ op' = "convertUomBack"
    /\ back' = convertUom(converted, to, from)
    /\ UNCHANGED <<settings, values, valuesAfter, errors, value, from, to, converted,
                   file, request, response, addCalls>>

\* InjectionMolder.applySettings(settings)
ApplySettings ==
    \E vals \in MolderBatches :
        /\ op = "idle"
        /\ settings = InjectionMolderSettings
        /\ op' = "applySettings"
        /\ values' = vals
        /\ valuesAfter' = vals
        /\ errors' = applySettings(settings, file, vals).errors
        /\ file' = applySettings(settings, file, vals).file
        /\ UNCHANGED <<settings, value, from, to, converted, back, request, response,
                       addCalls>>

\* configureRouter.post('/machines/:name/settings')
PostSettings ==
    \E name \in Names, body \in Bodies :
        LET r == postSettings(settings, file, name, body)
        IN /\ op = "idle"
           /\ settings = InjectionMolderSettings
           /\ op' = "postSettings"
           /\ request' = [NoRequest EXCEPT !.path = "/machines/:name/settings",
                                           !.name = name, !.isArray = body.isArray]
           /\ values' = body.settings
           /\ valuesAfter' = body.settings
           /\ errors' = r.errors
           /\ file' = r.file
           /\ response' = r.response
           /\ UNCHANGED <<settings, value, from, to, converted, back, addCalls>>

\* demoRouter.post('/add')
PostAdd ==
    \E a \in AddValues, b \in AddValues :
        LET r == postAdd(a, b)
        IN /\ op = "idle"
           /\ settings = InjectionMolderSettings
           /\ op' = "postAdd"
           /\ request' = [NoRequest EXCEPT !.path = "/demo/add", !.a = a, !.b = b]
           /\ response' = r.response
           /\ addCalls' = r.addCalls
           /\ UNCHANGED <<settings, values, valuesAfter, errors, value, from, to,
                          converted, back, file>>

\* the caller has taken the result; the machine keeps nothing of the call
\* but the file
Return ==
    /\ op # "idle"
    /\ op' = "idle"
    /\ values' = <<>>
    /\ valuesAfter' = <<>>
    /\ errors' = <<>>
    /\ value' = Undefined
    /\ from' = NoUom
    /\ to' = NoUom
    /\ converted' = Undefined
    /\ back' = Undefined
    /\ request' = NoRequest
    /\ response' = NoResponse
    /\ addCalls' = <<>>
    /\ UNCHANGED <<settings, file>>

Next ==
    \/ VerifySettings
    \/ StarterVerifySettings
    \/ ConvertUom
    \/ ConvertUomBack
    \/ ApplySettings
    \/ PostSettings
    \/ PostAdd
    \/ Return

Spec == Init /\ [][Next]_vars

----------------------------------------------------------------------------
(* Vocabulary of the properties *)

\* the call of verifySettings has returned
Verified == op = "verifySettings"

Occurrences(vals, id) == Cardinality({ i \in 1..Len(vals) : vals[i].identifier = id })

\* the errors that carry the identifier, in the order of the result
ErrorsFor(errs, id) == SelectSeq(errs, LAMBDA err : err.identifier = id)

ProposedIds(vals) == { vals[i].identifier : i \in 1..Len(vals) }

DefinedIds(defs) == { defs[k].identifier : k \in 1..Len(defs) }

\* the first proposal that carries the identifier: <<>> or <<p>>
FirstProposal(vals, id) ==
    IF id \in ProposedIds(vals)
    THEN <<vals[CHOOSE i \in 1..Len(vals) :
                 /\ vals[i].identifier = id
                 /\ \A j \in 1..(i - 1) : vals[j].identifier # id]>>
    ELSE <<>>

\* the definition requires a value of its own: not nullable, no default
Required(def) == def.nullable # Bool(TRUE) /\ def.defaultValue = Undefined

\* the messages of the range check of a definition
RangeMessages(def) ==
    (IF def.minValue # Undefined THEN {MsgMin(def.minValue)} ELSE {})
    \cup (IF def.maxValue # Undefined THEN {MsgMax(def.maxValue)} ELSE {})

HasRangeError(errs, def) ==
    \E msg \in RangeMessages(def) : Has(errs, def.identifier, msg)

\* a finite number
Numeric(v) == typeof(v) = "number" /\ ~v.nan

----------------------------------------------------------------------------
(* C1: an identifier proposed two or more times, however often and with    *)
(* whatever values, gets exactly one "Duplicate setting identifier         *)
(* provided" error; an identifier proposed once gets none.                 *)
C1_DuplicateCollapses ==
    Verified =>
        \A id \in ProposedIds(values) \cup DefinedIds(settings) :
            Count(errors, id, MsgDuplicate) = IF Occurrences(values, id) >= 2 THEN 1 ELSE 0

\* an identifier proposed three times with three different values
C1_Witness ==
    /\ Verified
    /\ \E id \in ProposedIds(values) :
          /\ Occurrences(values, id) = 3
          /\ Cardinality({ values[i].value : i \in 1..Len(values) }) = 3
          /\ Count(errors, id, MsgDuplicate) = 1

----------------------------------------------------------------------------
(* C2, as claimed: every proposal whose identifier has no definition gets   *)
(* the "Unknown setting identifier" error, and the result holds no other    *)
(* error that carries that identifier.                                      *)
C2_UnknownIsOnlyError ==
    Verified =>
        \A id \in ProposedIds(values) \ DefinedIds(settings) :
            /\ Has(errors, id, MsgUnknown)
            /\ \A i \in 1..Len(errors) :
                  errors[i].identifier = id => errors[i].message = MsgUnknown

(* C2, amended: every proposal whose identifier has no definition gets one  *)
(* "Unknown setting identifier" error of its own, and the result holds no   *)
(* other error that carries that identifier, except the one duplicate error *)
(* when the identifier is proposed more than once.                          *)
C2_UnknownExcluded ==
    Verified =>
        \A id \in ProposedIds(values) \ DefinedIds(settings) :
            /\ Count(errors, id, MsgUnknown) = Occurrences(values, id)
            /\ Len(ErrorsFor(errors, id)) =
                  Occurrences(values, id) + (IF Occurrences(values, id) >= 2 THEN 1 ELSE 0)
            /\ \A i \in 1..Len(errors) :
                  errors[i].identifier = id =>
                      \/ errors[i].message = MsgUnknown
                      \/ errors[i].message = MsgDuplicate /\ Occurrences(values, id) >= 2

\* an unknown identifier proposed twice, next to a known one
C2_Witness ==
    /\ Verified
    /\ DefinedIds(settings) # {}
    /\ \E id \in ProposedIds(values) \ DefinedIds(settings) :
          /\ Occurrences(values, id) = 2
          /\ Count(errors, id, MsgUnknown) = 2
          /\ Has(errors, id, MsgDuplicate)

----------------------------------------------------------------------------
\* every proposal that carries the identifier has the absent marker as value
\* (so also: the identifier is not proposed)
NoValueProposed(vals, id) ==
    \A i \in 1..Len(vals) : vals[i].identifier = id => vals[i].value = Undefined

(* C3, as claimed: a definition that is not nullable and has no default,    *)
(* and is omitted or proposed with the absent marker as value, gets exactly *)
(* one error, the "Missing value (no default and not nullable)" one.        *)
C3_MissingIsOnlyError ==
    Verified =>
        \A k \in 1..Len(settings) :
            Required(settings[k]) /\ NoValueProposed(values, settings[k].identifier) =>
                ErrorsFor(errors, settings[k].identifier)
                    = <<SettingError(settings[k].identifier, MsgMissing)>>

(* C3, amended: such a definition gets exactly one "Missing value (no       *)
(* default and not nullable)" error and no other error, except the one      *)
(* duplicate error when its identifier is proposed more than once.          *)
C3_MissingValue ==
    Verified =>
        \A k \in 1..Len(settings) :
            LET id == settings[k].identifier IN
            Required(settings[k]) /\ NoValueProposed(values, id) =>
                ErrorsFor(errors, id) =
                    (IF Occurrences(values, id) >= 2
                     THEN <<SettingError(id, MsgDuplicate)>> ELSE <<>>)
                    \o <<SettingError(id, MsgMissing)>>

\* a required definition whose only proposal has no value but a unit, and
\* one that is omitted while another definition has an error of its own
C3_Witness ==
    /\ Verified
    /\ \E k \in 1..Len(settings) :
          LET id == settings[k].identifier IN
          /\ Required(settings[k])
          /\ NoValueProposed(values, id)
          /\ \/ /\ Occurrences(values, id) = 1
                /\ FirstProposal(values, id)[1].uom # NoUom
                /\ settings[k].type # SettingTypeNUMBER
             \/ /\ Occurrences(values, id) = 0
                /\ \E i \in 1..Len(errors) : errors[i].identifier # id
          /\ ErrorsFor(errors, id) = <<SettingError(id, MsgMissing)>>

----------------------------------------------------------------------------
\* the value and the unit a definition is checked with: the value of its
\* first proposal when present, else its default
EffectiveOf(def, vals) ==
    LET first == FirstProposal(vals, def.identifier)
    IN [value |-> IF OptValue(first) # Undefined THEN OptValue(first) ELSE def.defaultValue,
        uom |-> OptUom(first)]

OfType(type, v) ==
    CASE type = SettingTypeSTRING -> typeof(v) = "string"
      [] type = SettingTypeBOOLEAN -> typeof(v) = "boolean"
      [] type = SettingTypeNUMBER -> Numeric(v)

\* the unit given goes with the definition
UnitAccepted(def, eff) ==
    IF def.type = SettingTypeNUMBER
    THEN \/ eff.uom = NoUom
         \/ def.uom # NoUom /\ convertUom(eff.value, eff.uom, def.uom) # Undefined
    ELSE eff.uom = NoUom

\* the value, in the unit of the definition, lies within the inclusive bounds
InRange(def, eff) ==
    def.type = SettingTypeNUMBER =>
        LET inUnit == IF eff.uom = NoUom THEN eff.value
                      ELSE convertUom(eff.value, eff.uom, def.uom)
        IN /\ def.minValue # Undefined => ~Less(inUnit, def.minValue)
           /\ def.maxValue # Undefined => ~Greater(inUnit, def.maxValue)

(* C4: when verifySettings returns no error, no identifier is proposed      *)
(* twice, every proposal names a definition, and every definition that is   *)
(* not nullable has an effective value (proposed, or its default) of its    *)
(* type, with an acceptable unit, within its bounds.                        *)
C4_EmptyMeansAcceptable ==
    Verified /\ errors = <<>> =>
        /\ \A id \in ProposedIds(values) : Occurrences(values, id) = 1
        /\ ProposedIds(values) \subseteq DefinedIds(settings)
        /\ \A k \in 1..Len(settings) :
              settings[k].nullable # Bool(TRUE) =>
                  LET eff == EffectiveOf(settings[k], values)
                  IN /\ eff.value # Undefined
                     /\ OfType(settings[k].type, eff.value)
                     /\ UnitAccepted(settings[k], eff)
                     /\ InRange(settings[k], eff)

\* accepted: a value proposed in another unit that converts to the maximum
C4_Witness ==
    /\ Verified
    /\ errors = <<>>
    /\ \E k \in 1..Len(settings) :
          LET def == settings[k]
              eff == EffectiveOf(def, values)
          IN /\ def.nullable # Bool(TRUE)
             /\ def.type = SettingTypeNUMBER
             /\ def.uom # NoUom
             /\ def.maxValue # Undefined
             /\ Occurrences(values, def.identifier) = 1
             /\ eff.uom \notin {NoUom, def.uom}
             /\ Compare(convertUom(eff.value, eff.uom, def.uom), def.maxValue) = 0

----------------------------------------------------------------------------
\* the definition is numeric and its first proposal is a finite number
NumericProposal(def, vals) ==
    /\ def.type = SettingTypeNUMBER
    /\ FirstProposal(vals, def.identifier) # <<>>
    /\ Numeric(FirstProposal(vals, def.identifier)[1].value)

\* the definition tempC of the test machine, 0..100 degrees Celsius
TempC == Setting(identifierOf(1), SettingTypeNUMBER, Undefined, Undefined,
                 DEGREE_CELSIUS, Num(0), Num(100))

(* C5: for a numeric definition with a unit and a proposal in another,      *)
(* convertible unit, "Value must be <= max" is emitted exactly when the     *)
(* converted value is greater than maxValue and "Value must be >= min"      *)
(* exactly when it is less than minValue; 212 Fahrenheit against 0..100     *)
(* Celsius gives no error, 213 Fahrenheit gives "Value must be <= 100".     *)
(* (The proposal checked is the first one of its identifier.)               *)
C5_RangeCheckOnConverted ==
    Verified =>
        /\ \A k \in 1..Len(settings) :
              LET def == settings[k]
                  p == FirstProposal(values, def.identifier)[1]
                  conv == convertUom(p.value, p.uom, def.uom)
              IN ( /\ NumericProposal(def, values)
                   /\ def.uom # NoUom
                   /\ p.uom \notin {NoUom, def.uom}
                   /\ conv # Undefined ) =>
                     /\ def.maxValue # Undefined =>
                           (Has(errors, def.identifier, MsgMax(def.maxValue))
                              <=> Greater(conv, def.maxValue))
                     /\ def.minValue # Undefined =>
                           (Has(errors, def.identifier, MsgMin(def.minValue))
                              <=> Less(conv, def.minValue))
        /\ ( settings = <<TempC>>
             /\ values = <<SettingValue(identifierOf(1), Num(212), DEGREE_FAHRENHEIT)>> )
               => errors = <<>>
        /\ ( settings = <<TempC>>
             /\ values = <<SettingValue(identifierOf(1), Num(213), DEGREE_FAHRENHEIT)>> )
               => errors = <<SettingError(identifierOf(1), "Value must be <= 100")>>

\* a proposal beyond the maximum as proposed and equal to it once converted
C5_Witness ==
    /\ Verified
    /\ \E k \in 1..Len(settings) :
          LET def == settings[k]
              p == FirstProposal(values, def.identifier)[1]
          IN /\ NumericProposal(def, values)
             /\ def.uom # NoUom
             /\ def.minValue # Undefined
             /\ def.maxValue # Undefined
             /\ p.uom \notin {NoUom, def.uom}
             /\ convertUom(p.value, p.uom, def.uom) = def.maxValue
             /\ Greater(p.value, def.maxValue)
             /\ ErrorsFor(errors, def.identifier) = <<>>

----------------------------------------------------------------------------
(* C6: for a numeric definition with a unit and a numeric proposal in       *)
(* another unit that convertUom cannot convert, "Unit of measure is not     *)
(* convertible to required unit" is emitted and no range error is, whatever *)
(* the value and the bounds.                                                *)
C6_NotConvertible ==
    Verified =>
        \A k \in 1..Len(settings) :
            LET def == settings[k]
                p == FirstProposal(values, def.identifier)[1]
            IN ( /\ NumericProposal(def, values)
                 /\ def.uom # NoUom
                 /\ p.uom \notin {NoUom, def.uom}
                 /\ convertUom(p.value, p.uom, def.uom) = Undefined ) =>
                   /\ Has(errors, def.identifier, MsgUomNotConvertible)
                   /\ ~HasRangeError(errors, def)

\* a value below the minimum, in a unit that is not convertible
C6_Witness ==
    /\ Verified
    /\ \E k \in 1..Len(settings) :
          LET def == settings[k]
              p == FirstProposal(values, def.identifier)[1]
          IN /\ NumericProposal(def, values)
             /\ def.uom # NoUom
             /\ p.uom \notin {NoUom, def.uom}
             /\ convertUom(p.value, p.uom, def.uom) = Undefined
             /\ def.minValue # Undefined
             /\ Less(p.value, def.minValue)
             /\ ErrorsFor(errors, def.identifier)
                  = <<SettingError(def.identifier, MsgUomNotConvertible)>>

----------------------------------------------------------------------------
(* C7: for a numeric definition without a unit and a numeric proposal that  *)
(* carries one, "Unit of measure is not supported for this setting" is      *)
(* emitted and no range error is, also for a value outside the bounds.      *)
C7_UomNotSupported ==
    Verified =>
        \A k \in 1..Len(settings) :
            LET def == settings[k]
                p == FirstProposal(values, def.identifier)[1]
            IN ( /\ NumericProposal(def, values)
                 /\ def.uom = NoUom
                 /\ p.uom # NoUom ) =>
                   /\ Has(errors, def.identifier, MsgUomNotSupported)
                   /\ ~HasRangeError(errors, def)

\* a value above the maximum, with a unit the definition does not take
C7_Witness ==
    /\ Verified
    /\ \E k \in 1..Len(settings) :
          LET def == settings[k]
              p == FirstProposal(values, def.identifier)[1]
          IN /\ NumericProposal(def, values)
             /\ def.uom = NoUom
             /\ p.uom # NoUom
             /\ def.maxValue # Undefined
             /\ Greater(p.value, def.maxValue)
             /\ ErrorsFor(errors, def.identifier)
                  = <<SettingError(def.identifier, MsgUomNotSupported)>>

----------------------------------------------------------------------------
\* the definition is not numeric and its first proposal carries a unit
UnitOnNonNumeric(def, vals) ==
    /\ def.type # SettingTypeNUMBER
    /\ FirstProposal(vals, def.identifier) # <<>>
    /\ FirstProposal(vals, def.identifier)[1].uom # NoUom

(* C8, as claimed: when the definition is not numeric and its proposal      *)
(* carries a unit, "Unit of measure is only allowed for numeric settings"   *)
(* is emitted, whether the value is present, absent with a default, absent  *)
(* with nullable and no default, or absent with non-nullable and no         *)
(* default.                                                                 *)
C8_UomErrorAlways ==
    Verified =>
        \A k \in 1..Len(settings) :
            UnitOnNonNumeric(settings[k], values) =>
                Has(errors, settings[k].identifier, MsgUomNotNumeric)

(* C8, amended: the error is emitted, once, when the value is present, when *)
(* it is absent with a default, and when it is absent with nullable and no  *)
(* default; when the value is absent and the definition is not nullable and *)
(* has no default, "Missing value (no default and not nullable)" is emitted *)
(* and the unit error is not.                                               *)
C8_UomErrorUnlessMissing ==
    Verified =>
        \A k \in 1..Len(settings) :
            LET def == settings[k]
                missing == /\ Required(def)
                           /\ FirstProposal(values, def.identifier)[1].value = Undefined
            IN UnitOnNonNumeric(def, values) =>
                   /\ Count(errors, def.identifier, MsgUomNotNumeric) = IF missing THEN 0 ELSE 1
                   /\ missing => Has(errors, def.identifier, MsgMissing)

\* a nullable definition without default, proposed without value, with a unit
C8_Witness ==
    /\ Verified
    /\ \E k \in 1..Len(settings) :
          LET def == settings[k] IN
          /\ UnitOnNonNumeric(def, values)
          /\ def.nullable = Bool(TRUE)
          /\ def.defaultValue = Undefined
          /\ FirstProposal(values, def.identifier)[1].value = Undefined
          /\ ErrorsFor(errors, def.identifier)
               = <<SettingError(def.identifier, MsgUomNotNumeric)>>

----------------------------------------------------------------------------
TypeMessage(type) ==
    CASE type = SettingTypeSTRING -> MsgString
      [] type = SettingTypeBOOLEAN -> MsgBoolean
      [] type = SettingTypeNUMBER -> MsgNumber

(* C9: for a definition with an effective value, the type error of its      *)
(* dataType is emitted exactly when the effective value is not of that type *)
(* (for NUMBER: not a number, or NaN), and the type error of another        *)
(* dataType is never emitted for it.                                        *)
C9_TypeCheck ==
    Verified =>
        \A k \in 1..Len(settings) :
            LET def == settings[k]
                eff == EffectiveOf(def, values)
            IN eff.value # Undefined =>
                   /\ Has(errors, def.identifier, TypeMessage(def.type))
                        <=> ~OfType(def.type, eff.value)
                   /\ \A type \in SettingType \ {def.type} :
                        ~Has(errors, def.identifier, TypeMessage(type))

\* NaN proposed for a numeric definition
C9_Witness ==
    /\ Verified
    /\ \E k \in 1..Len(settings) :
          /\ settings[k].type = SettingTypeNUMBER
          /\ EffectiveOf(settings[k], values).value = NaN
          /\ ErrorsFor(errors, settings[k].identifier)
               = <<SettingError(settings[k].identifier, MsgNumber)>>

----------------------------------------------------------------------------
(* C10: convertUom(v, u, u) returns v unchanged, for every unit u and every *)
(* number v.                                                                *)
C10_SameUnitIdentity ==
    op = "convertUom" /\ from = to => converted = value

\* a call with twice the same unit, which is in no formula of the table
C10_Witness ==
    /\ op = "convertUom"
    /\ from = BAR
    /\ to = BAR
    /\ value = Num(100)
    /\ converted = Num(100)

----------------------------------------------------------------------------
\* the convertibility classes of the units
UnitClasses == {{DEGREE_CELSIUS, DEGREE_FAHRENHEIT}, {BAR, PSI}, {RPM, RPS}, {SECOND, MINUTE}}

SameClass(f, u) == \E class \in UnitClasses : f \in class /\ u \in class

(* C11: for two units of different convertibility classes convertUom       *)
(* returns undefined, whatever the value and in either direction; for two  *)
(* units of one class it returns a number.                                  *)
C11_ClosedWorld ==
    op = "convertUom" =>
        IF SameClass(from, to) THEN typeof(converted) = "number" ELSE converted = Undefined

C11_Witness ==
    /\ op = "convertUom"
    /\ value = Num(100)
    /\ from = RPM
    /\ to = DEGREE_CELSIUS
    /\ converted = Undefined

----------------------------------------------------------------------------
\* a number that is neither NaN nor an infinity
Finite(v) == typeof(v) = "number" /\ ~v.nan /\ v.inf = 0

----------------------------------------------------------------------------
\* a finite number within the integers and their quotients by the formulas
Ordinary(v) == Finite(v) /\ v.m = 0

\* r = v * i / j + k / j, for Ordinary v free of the pressure factor
IsLinear(r, v, i, j, k) ==
    /\ Ordinary(r)
    /\ r.e = 0
    /\ r.n * j * v.d = (v.n * i + k * v.d) * r.d

\* r = v * PressureFactor^k, for Ordinary v
IsScaled(r, v, k) ==
    /\ Ordinary(r)
    /\ r.n * v.d = v.n * r.d
    /\ r.e = (IF v.n = 0 THEN 0 ELSE v.e + k)

(* C13: for an ordered pair of units of one class convertUom computes the   *)
(* formula of the table: C to F v*9/5+32, F to C (v-32)*5/9, RPM to RPS and *)
(* SECOND to MINUTE v/60, RPS to RPM and MINUTE to SECOND v*60, BAR to PSI  *)
(* v times the pressure factor, PSI to BAR v divided by it.                 *)
C13_TableFormulas ==
    op = "convertUom" /\ Ordinary(value) /\ from # to /\ SameClass(from, to) =>
        CASE from = DEGREE_CELSIUS -> IsLinear(converted, value, 9, 5, 160)
          [] from = DEGREE_FAHRENHEIT -> IsLinear(converted, value, 5, 9, -160)
          [] from \in {RPM, SECOND} -> IsLinear(converted, value, 1, 60, 0)
          [] from \in {RPS, MINUTE} -> IsLinear(converted, value, 60, 1, 0)
          [] from = BAR -> IsScaled(converted, value, 1)
          [] from = PSI -> IsScaled(converted, value, -1)

C13_Witness ==
    /\ op = "convertUom"
    /\ value = Num(100)
    /\ from = DEGREE_CELSIUS
    /\ to = DEGREE_FAHRENHEIT
    /\ converted = Num(212)

----------------------------------------------------------------------------
\* the messages verifySettings has for the definitions
Messages(defs) ==
    {MsgDuplicate, MsgUnknown, MsgMissing, MsgUomNotNumeric, MsgString, MsgBoolean,
     MsgNumber, MsgUomNotSupported, MsgUomNotConvertible}
    \cup UNION { RangeMessages(defs[k]) : k \in 1..Len(defs) }

\* a list of errors, each with an identifier of the call and a message
IsErrorList(errs, defs, vals) ==
    \A i \in 1..Len(errs) :
        /\ DOMAIN errs[i] = {"identifier", "message"}
        /\ errs[i].identifier \in DefinedIds(defs) \cup ProposedIds(vals)
        /\ errs[i].message \in Messages(defs)

\* the definition is well-typed: its default, if any, is of its type
WellTyped(def) == def.defaultValue = Undefined \/ typeof(def.defaultValue) = def.type

NullableOrDefaulted(def) == def.nullable = Bool(TRUE) \/ def.defaultValue # Undefined

\* the default of the definition alone
DefaultOf(def) == [value |-> def.defaultValue, uom |-> NoUom]

\* the definition is nullable and has no default, or has a default of its
\* type that lies within its bounds
OptionalOrDefaultFits(def) ==
    IF def.defaultValue = Undefined THEN def.nullable = Bool(TRUE)
    ELSE OfType(def.type, def.defaultValue) /\ InRange(def, DefaultOf(def))

(* C14, as claimed: for well-typed definitions and proposals verifySettings *)
(* returns a list of errors, and for no proposals and definitions that are  *)
(* all nullable or defaulted the list is empty.                             *)
C14_Totality ==
    Verified /\ (\A k \in 1..Len(settings) : WellTyped(settings[k])) =>
        /\ IsErrorList(errors, settings, values)
        /\ values = <<>> /\ (\A k \in 1..Len(settings) : NullableOrDefaulted(settings[k]))
              => errors = <<>>

(* C14, amended: verifySettings returns a list of errors for every          *)
(* definitions and proposals, and for no proposals and definitions that     *)
(* each are nullable without default, or have a default of their type       *)
(* within their bounds, the list is empty.                                  *)
C14_TotalityDefaultsFit ==
    Verified =>
        /\ IsErrorList(errors, settings, values)
        /\ values = <<>> /\ (\A k \in 1..Len(settings) : OptionalOrDefaultFits(settings[k]))
              => errors = <<>>

C14_Witness ==
    /\ Verified
    /\ values = <<>>
    /\ settings = <<Setting(identifierOf(1), SettingTypeNUMBER, Bool(TRUE), Undefined,
                            NoUom, Undefined, Undefined),
                    Setting(identifierOf(2), SettingTypeSTRING, Undefined, Str("hello"),
                            NoUom, Undefined, Undefined)>>
    /\ errors = <<>>

----------------------------------------------------------------------------
(* C15: a definition that is not nullable, has a default of its type (for   *)
(* a NUMBER within its bounds) and is not proposed gets no error.           *)
C15_DefaultSatisfies ==
    Verified =>
        \A k \in 1..Len(settings) :
            LET def == settings[k]
            IN /\ def.nullable # Bool(TRUE)
               /\ def.defaultValue # Undefined
               /\ OfType(def.type, def.defaultValue)
               /\ InRange(def, DefaultOf(def))
               /\ def.identifier \notin ProposedIds(values)
               => ErrorsFor(errors, def.identifier) = <<>>

C15_Witness ==
    /\ Verified
    /\ settings = <<Setting(identifierOf(1), SettingTypeNUMBER, Bool(FALSE), Num(50),
                            DEGREE_CELSIUS, Num(0), Num(100))>>
    /\ values = <<>>
    /\ errors = <<>>

----------------------------------------------------------------------------
\* the messages of the checks of the unit
UnitMessages == {MsgUomNotNumeric, MsgUomNotSupported, MsgUomNotConvertible}

(* C20: for a NUMBER definition whose proposal carries no unit, or the unit *)
(* of the definition, and whose effective value is a number, no unit error  *)
(* is reported and the bounds are checked against the effective value as it *)
(* is: the errors of the definition are exactly those of that value's range *)
(* check (and the duplicate error, if it is proposed again).                *)
C20_UnitAbsentOrOwn ==
    Verified =>
        \A k \in 1..Len(settings) :
            LET def == settings[k]
                eff == EffectiveOf(def, values)
                id == def.identifier
            IN /\ def.type = SettingTypeNUMBER
               /\ id \in ProposedIds(values)
               /\ eff.uom = NoUom \/ eff.uom = def.uom
               /\ Numeric(eff.value)
               => /\ \A msg \in UnitMessages : ~Has(errors, id, msg)
                  /\ def.minValue # Undefined =>
                        (Has(errors, id, MsgMin(def.minValue)) <=> Less(eff.value, def.minValue))
                  /\ def.maxValue # Undefined =>
                        (Has(errors, id, MsgMax(def.maxValue)) <=> Greater(eff.value, def.maxValue))
                  /\ \A i \in 1..Len(errors) :
                        errors[i].identifier = id =>
                            errors[i].message \in RangeMessages(def) \cup {MsgDuplicate}

C20_Witness ==
    /\ Verified
    /\ settings = <<Setting(identifierOf(1), SettingTypeNUMBER, Undefined, Undefined,
                            DEGREE_FAHRENHEIT, Num(32), Num(212))>>
    /\ values = <<SettingValue(identifierOf(1), Num(100), NoUom)>>
    /\ errors = <<>>

----------------------------------------------------------------------------
(* C16: applySettings returns the errors verifySettings has for the         *)
(* proposals and the definitions of its machine; when there are errors the  *)
(* file stays as it was, and when there are none the file holds the         *)
(* proposals and the list returned is empty.                                *)
C16_ApplySettings ==
    [][op' = "applySettings" =>
          /\ errors' = verifySettings(settings, values')
          /\ IF Len(errors') > 0 THEN file' = file
             ELSE file' = <<JsonStringify(values')>>]_vars

C16_Witness ==
    /\ op = "applySettings"
    /\ values = <<SettingValue("coolingTime", Num(5), BAR)>>
    /\ Len(errors) = 2
    /\ file = <<JsonStringify(<<SettingValue("guardsClosedRequired", Bool(TRUE), NoUom)>>)>>

----------------------------------------------------------------------------
(* C17: POST /machines/{name}/settings for the registered machine and an    *)
(* array of proposals answers with status 400, the error "Settings          *)
(* validation failed" and the errors of verifySettings as they are, and     *)
(* leaves the file as it was, when there are such errors; it answers with   *)
(* the success message, and the file holds the proposals, when there are    *)
(* none.                                                                    *)
C17_PostSettings ==
    [][op' = "postSettings" /\ request'.name = RegisteredName /\ request'.isArray =>
          LET errs == verifySettings(settings, values')
          IN IF Len(errs) > 0
             THEN /\ response'.status = 400
                  /\ response'.error = MsgValidationFailed
                  /\ response'.errors = errs
                  /\ response'.message = ""
                  /\ file' = file
             ELSE /\ response'.status = 200
                  /\ response'.message = MsgApplied(RegisteredName)
                  /\ response'.error = ""
                  /\ response'.errors = <<>>
                  /\ file' = <<JsonStringify(values')>>]_vars

C17_Witness ==
    /\ op = "postSettings"
    /\ request.name = RegisteredName
    /\ values = <<SettingValue("barrelTemperature", Num(446), DEGREE_FAHRENHEIT)>>
    /\ response.status = 400
    /\ response.errors = <<SettingError("guardsClosedRequired", MsgMissing)>>
    /\ file = <<JsonStringify(<<SettingValue("guardsClosedRequired", Bool(TRUE), NoUom)>>)>>

----------------------------------------------------------------------------
----------------------------------------------------------------------------
(* C19: POST /demo/add answers with status 400 and the error "Both a and b  *)
(* must be numbers", without a call of add, when a or b is missing or not a *)
(* number; else it calls add(a, b) once and answers with status 200 and the *)
(* result of that call.                                                     *)
C19_PostAdd ==
    op = "postAdd" =>
        IF typeof(request.a) # "number" \/ typeof(request.b) # "number"
        THEN /\ response.status = 400
             /\ response.error = "Both a and b must be numbers"
             /\ response.result = Undefined
             /\ addCalls = <<>>
        ELSE /\ addCalls = <<<<request.a, request.b>>>>
             /\ response.status = 200
             /\ response.error = ""
             /\ response.result = add(request.a, request.b)

C19_Witness ==
    /\ op = "postAdd"
    /\ request.a = Num(-5)
    /\ request.b = Num(3)
    /\ addCalls = <<<<Num(-5), Num(3)>>>>
    /\ response.status = 200
    /\ response.result = Num(-2)

----------------------------------------------------------------------------
(* C21: a NUMBER definition whose value is reported as "Value must be a     *)
(* number" gets no error of the unit reconciliation ("not supported", "not  *)
(* convertible") and no error of the range check.                           *)
C21_TypeErrorSkipsUnitAndRange ==
    Verified =>
        \A k \in 1..Len(settings) :
            LET def == settings[k]
                id == def.identifier
            IN Has(errors, id, MsgNumber) =>
                  /\ ~Has(errors, id, MsgUomNotSupported)
                  /\ ~Has(errors, id, MsgUomNotConvertible)
                  /\ ~HasRangeError(errors, def)

C21_Witness ==
    /\ Verified
    /\ settings = <<Setting(identifierOf(1), SettingTypeNUMBER, Undefined, Undefined,
                            DEGREE_FAHRENHEIT, Num(32), Num(212))>>
    /\ values = <<SettingValue(identifierOf(1), NaN, RPM)>>
    /\ errors = <<SettingError(identifierOf(1), MsgNumber)>>

----------------------------------------------------------------------------
\* the definitions, or the proposals, that carry the identifier
Carrying(seq, id) == SelectSeq(seq, LAMBDA x : x.identifier = id)

(* C22: the errors that carry an identifier are those verifySettings has    *)
(* for the definition and the proposals of that identifier alone: the       *)
(* definitions and the proposals of other identifiers, and the errors they  *)
(* get, have no influence on them.                                          *)
C22_PerIdentifier ==
    Verified =>
        \A id \in DefinedIds(settings) \cup ProposedIds(values) :
            ErrorsFor(errors, id)
                = verifySettings(Carrying(settings, id), Carrying(values, id))

C22_Witness ==
    /\ Verified
    /\ Len(settings) = 2
    /\ ErrorsFor(errors, identifierOf(1)) = <<SettingError(identifierOf(1), MsgMissing)>>
    /\ ErrorsFor(errors, identifierOf(2))
          = <<SettingError(identifierOf(2), MsgDuplicate),
              SettingError(identifierOf(2), MsgUomNotSupported)>>

----------------------------------------------------------------------------
\* the positions of the proposals that repeat an identifier for the first time
FirstRepeats(vals) ==
    SelectSeq([i \in 1..Len(vals) |-> i],
              LAMBDA i : Cardinality({ j \in 1..(i - 1) :
                                         vals[j].identifier = vals[i].identifier }) = 1)

\* the proposals whose identifier has no definition
UnknownProposals(defs, vals) ==
    SelectSeq(vals, LAMBDA p : p.identifier \notin DefinedIds(defs))

\* the errors of the duplicates and of the unknown identifiers, in their order
ExpectedHead(defs, vals) ==
    [r \in 1..Len(FirstRepeats(vals)) |->
        SettingError(vals[FirstRepeats(vals)[r]].identifier, MsgDuplicate)]
    \o [r \in 1..Len(UnknownProposals(defs, vals)) |->
          SettingError(UnknownProposals(defs, vals)[r].identifier, MsgUnknown)]

\* the position of the definition of an identifier
DefIndex(defs, id) == CHOOSE k \in 1..Len(defs) : defs[k].identifier = id

\* the place of a message among the errors of one definition
Rank(def, msg) ==
    IF msg = MsgUomNotNumeric THEN 1
    ELSE IF def.minValue # Undefined /\ msg = MsgMin(def.minValue) THEN 3
    ELSE IF def.maxValue # Undefined /\ msg = MsgMax(def.maxValue) THEN 4
    ELSE 2

C23_WitnessMinMax ==
    /\ Verified
    /\ errors = <<SettingError(identifierOf(1), MsgMin(Num(212))),
                  SettingError(identifierOf(1), MsgMax(Num(0)))>>

----------------------------------------------------------------------------
\* the proposals without the later occurrences of the identifiers that have
\* a definition
FirstOccurrences(defs, vals) ==
    LET kept == SelectSeq([i \in 1..Len(vals) |-> i],
                          LAMBDA i : \/ vals[i].identifier \notin DefinedIds(defs)
                                     \/ \A j \in 1..(i - 1) :
                                            vals[j].identifier # vals[i].identifier)
    IN [r \in 1..Len(kept) |-> vals[kept[r]]]

\* the duplicate error of an identifier that has a definition
IsDefinedDuplicate(defs, err) ==
    err.message = MsgDuplicate /\ err.identifier \in DefinedIds(defs)

(* C24: when identifiers that have a definition are proposed more than      *)
(* once, the result is the one for their first occurrences alone, plus one  *)
(* duplicate error for each of them: the values and units of the later      *)
(* occurrences have no influence.                                           *)
C24_FirstOccurrenceOnly ==
    Verified =>
        /\ SelectSeq(errors, LAMBDA err : ~IsDefinedDuplicate(settings, err))
              = verifySettings(settings, FirstOccurrences(settings, values))
        /\ \A id \in DefinedIds(settings) :
              Count(errors, id, MsgDuplicate)
                  = (IF Occurrences(values, id) > 1 THEN 1 ELSE 0)

C24_Witness ==
    /\ Verified
    /\ settings = <<Setting(identifierOf(1), SettingTypeNUMBER, Undefined, Undefined,
                            DEGREE_CELSIUS, Num(0), Num(100))>>
    /\ values = <<SettingValue(identifierOf(1), Num(50), DEGREE_FAHRENHEIT),
                  SettingValue(identifierOf(1), Bool(TRUE), NoUom),
                  SettingValue(identifierOf(1), Undefined, NoUom)>>
    /\ errors = <<SettingError(identifierOf(1), MsgDuplicate)>>

----------------------------------------------------------------------------
(* C25: in every sequence of calls, made directly or through the server,    *)
(* a step changes the file only when it is a call of applySettings whose    *)
(* validation returns no error, and then the file holds the whole array of  *)
(* that call and nothing else; every other step, a rejected call included,  *)
(* leaves the file as it is.  The file therefore always holds the array of  *)
(* the most recent accepted call.                                           *)
C25_LastAcceptedWins ==
    [][IF /\ \/ op' = "applySettings"
             \/ op' = "postSettings" /\ request'.name = RegisteredName /\ request'.isArray
          /\ verifySettings(settings, values') = <<>>
       THEN file' = <<JsonStringify(values')>>
       ELSE file' = file]_vars

C25_Witness ==
    /\ op = "postSettings"
    /\ response.status = 400
    /\ values = <<SettingValue("guardsClosedRequired", Bool(TRUE), NoUom),
                  SettingValue("coolingTime", Num(5), BAR)>>
    /\ file = <<JsonStringify(<<SettingValue("coolingTime", Num(2), MINUTE),
                                SettingValue("guardsClosedRequired", Bool(TRUE), NoUom)>>)>>

----------------------------------------------------------------------------
(* C26: POST /machines/{name}/settings answers 404 for every name that is   *)
(* not the name of a registered machine, whatever the body; for a           *)
(* registered machine and a body whose settings are no array it answers     *)
(* 400; in both cases applySettings is not called: no errors are returned   *)
(* and the file stays as it is.                                             *)
C26_CheckOrder ==
    [][op' = "postSettings" =>
          /\ request'.name # RegisteredName =>
                /\ response'.status = 404
                /\ response'.error = MsgNotFound(request'.name)
                /\ errors' = <<>>
                /\ file' = file
          /\ request'.name = RegisteredName /\ ~request'.isArray =>
                /\ response'.status = 400
                /\ response'.error = MsgNoArray
                /\ errors' = <<>>
                /\ file' = file]_vars

----------------------------------------------------------------------------
(* C27: for a NUMBER definition with a unit and a default, whose proposal   *)
(* carries no value but another unit, the default is taken as given in the  *)
(* unit of the proposal: the bounds are checked against the default         *)
(* converted from that unit to the unit of the definition, or the "not      *)
(* convertible" error is reported and the bounds are not checked.           *)
C27_DefaultInProposedUnit ==
    Verified =>
        \A k \in 1..Len(settings) :
            LET def == settings[k]
                id == def.identifier
                first == FirstProposal(values, id)
                conv == convertUom(def.defaultValue, OptUom(first), def.uom)
            IN /\ def.type = SettingTypeNUMBER
               /\ def.uom # NoUom
               /\ Numeric(def.defaultValue)
               /\ first # <<>>
               /\ OptValue(first) = Undefined
               /\ OptUom(first) \notin {NoUom, def.uom}
               => IF conv = Undefined
                  THEN /\ Has(errors, id, MsgUomNotConvertible)
                       /\ ~HasRangeError(errors, def)
                  ELSE /\ ~Has(errors, id, MsgUomNotConvertible)
                       /\ def.minValue # Undefined =>
                             (Has(errors, id, MsgMin(def.minValue))
                                 <=> Less(conv, def.minValue))
                       /\ def.maxValue # Undefined =>
                             (Has(errors, id, MsgMax(def.maxValue))
                                 <=> Greater(conv, def.maxValue))

C27_Witness ==
    /\ Verified
    /\ settings = <<Setting(identifierOf(1), SettingTypeNUMBER, Undefined, Num(50),
                            DEGREE_CELSIUS, Num(32), Num(100))>>
    /\ values = <<SettingValue(identifierOf(1), Undefined, DEGREE_FAHRENHEIT)>>
    /\ errors = <<SettingError(identifierOf(1), MsgMin(Num(32)))>>

----------------------------------------------------------------------------
(* C28: an identifier that gets the "Missing value (no default and not      *)
(* nullable)" error gets it once, and gets no unit-applicability, type,     *)
(* unit-reconciliation or range error with it.                              *)
C28_MissingExcludesOthers ==
    Verified =>
        \A id \in DefinedIds(settings) \cup ProposedIds(values) :
            Has(errors, id, MsgMissing) =>
                /\ Count(errors, id, MsgMissing) = 1
                /\ \A i \in 1..Len(errors) :
                      errors[i].identifier = id =>
                          errors[i].message \in {MsgMissing, MsgDuplicate}

C28_Witness ==
    /\ Verified
    /\ settings = <<Setting(identifierOf(1), SettingTypeSTRING, Bool(FALSE), Undefined,
                            NoUom, Undefined, Undefined)>>
    /\ values = <<SettingValue(identifierOf(1), Undefined, BAR)>>
    /\ errors = <<SettingError(identifierOf(1), MsgMissing)>>

StarterVerified == op = "starterVerifySettings"

\* a definition of the starter that is not nullable and has no default
StarterRequired(def) == def.nullable = Bool(FALSE) /\ def.defaultValue = Null

\* the messages of the errors for an identifier, in the order of the array
MessagesFor(errs, id) ==
    LET own == ErrorsFor(errs, id) IN [j \in 1..Len(own) |-> own[j].message]

\* the messages of the starter that report a minimum or a maximum
StarterRangeMessages(def, numValue) ==
    (IF def.minValue = Undefined THEN {}
     ELSE {StarterMsgMin(numValue, def.minValue)})
    \cup (IF def.maxValue = Undefined THEN {}
          ELSE {StarterMsgMax(numValue, def.maxValue)})

\* C29: in the starter variant a single proposal of null for a definition
\* that is not nullable and has no default yields two errors for that
\* identifier, 'Value is required (not nullable and no default value)' from
\* the loop over the proposals and then 'Required setting is missing' from
\* the last loop, while no proposal for it yields only 'Required setting is
\* missing'.
C29_NullVersusOmitted ==
    StarterVerified =>
        \A k \in 1..Len(settings) :
            StarterRequired(settings[k]) =>
                LET id == settings[k].identifier
                IN /\ Occurrences(values, id) = 0 =>
                          MessagesFor(errors, id) = <<StarterMsgMissing>>
                   /\ (/\ Occurrences(values, id) = 1
                       /\ \E i \in 1..Len(values) :
                              /\ values[i].identifier = id
                              /\ values[i].value = Null) =>
                          MessagesFor(errors, id)
                              = <<StarterMsgValueRequired, StarterMsgMissing>>

C29_Witness ==
    /\ StarterVerified
    /\ settings = StarterTestMachine
    /\ values = <<SettingValue("temp", Null, NoUom)>>
    /\ errors = <<SettingError("temp", StarterMsgValueRequired),
                  SettingError("temp", StarterMsgMissing)>>

C30_WitnessCannotConvert ==
    /\ StarterVerified
    /\ settings = StarterTestMachine
    /\ values = <<SettingValue("temp", Num(50), RPM)>>
    /\ errors = <<SettingError("temp", StarterMsgCannotConvert(RPM, DEGREE_CELSIUS))>>

C30_WitnessConverted ==
    /\ StarterVerified
    /\ settings = StarterTestMachine
    /\ values = <<SettingValue("temp", Num(213), DEGREE_FAHRENHEIT)>>
    /\ errors = <<SettingError("temp", StarterMsgMax(Ratio(905, 9, 0), Num(100)))>>

============================================================================
